---- MODULE Spec2Model ----
(***************************************************************************)
(* Training engine of people-memorizer: the session aggregator of          *)
(* TrainingScreen.tsx, the game-mode components that feed it (flashcards,  *)
(* the single-question modes, matching) and the Leitner helpers of         *)
(* utils/training.ts.                                                      *)
(*                                                                         *)
(* React closures are modelled by value: a callback scheduled with         *)
(* setTimeout carries the overallStats / leitnerCards / questionCount of   *)
(* the render that created it (its "env"), exactly what the closure holds. *)
(* Every event handler is followed by a synchronous re-render, so the env  *)
(* of a handler invoked directly by the user is the current state.         *)
(*                                                                         *)
(* Abstractions: an AnswerResult keeps the fields the aggregator reads     *)
(* (personId, correct); accuracy is the floor of the percentage; a         *)
(* Date.now() value is drawn from Timestamps; join(', ') of a name list is *)
(* represented by the list itself.                                         *)
(***************************************************************************)
EXTENDS Integers, Sequences, FiniteSets, TLC

VARIABLES
    people,           \* App.tsx people: the roster, a sequence of person ids
    overallStats,     \* App.tsx overallStats (persisted)
    settings,         \* TrainingScreen settings
    isActive,         \* TrainingScreen isActive
    isSessionComplete,\* TrainingScreen isSessionComplete
    sessionStats,     \* TrainingScreen sessionStats
    leitnerCards,     \* TrainingScreen leitnerCards (live mapping)
    question,         \* mode component: person of the current question
    lastPersonId,     \* mode component: lastPersonId
    feedback,         \* single modes: feedback shown / isAnswered
    isFlipped,        \* FlashcardMode isFlipped
    round,            \* MatchingMode state (pairs, relation, selectedName, ...)
    pendingFinish,    \* setTimeout(() => finishSession(newStats), 0) in flight
    pendingFeedback,  \* setTimeout(() => { onAnswer(result); nextQuestion() }, 1200) in flight
    nResponses,       \* history: user responses given so far
    nFolded,          \* history: results folded by handleAnswer so far
    sessionBase,      \* history: overallStats when the running session started
    probe             \* inputs/outputs of the pure-function specifications

vars == <<people, overallStats, settings, isActive, isSessionComplete,
          sessionStats, leitnerCards, question, lastPersonId, feedback,
          isFlipped, round, pendingFinish, pendingFeedback,
          nResponses, nFolded, sessionBase, probe>>

(***************************************************************************)
(* Bounds                                                                  *)
(***************************************************************************)
\* questions of a finite session (the code offers 10, 20 and 50)
SmallCount == 2
\* user responses in one behaviour
MaxResponses == 3
\* sessions finished before another one may start
MaxSessions == 2
\* consecutive updates applied in the updateLeitnerCard specification
MaxRun == 5
\* largest Date.now() value / largest counter drawn for a pure-function input
MaxStamp == 2

PersonIds == {"p1", "p2", "p3"}
NoPerson == "none"
\* questionCount 'infinite' (a finite count is a positive number)
Infinite == 0
QuestionCounts == {SmallCount, Infinite}
Timestamps == 1..MaxStamp
\* the instant Date.now() returns during a session
Now == 1

\* Person records of the roster: p1 and p2 are siblings (same parents),
\* p3 has no siblings.
NameOf(p) == IF p = "p1" THEN "A" ELSE IF p = "p2" THEN "B" ELSE "C"
ParentsOf(p) == IF p \in {"p1", "p2"} THEN <<"X", "Y">> ELSE <<"V", "W">>
SiblingsOf(p) == IF p = "p1" THEN <<"B">> ELSE IF p = "p2" THEN <<"A">> ELSE <<>>

Rosters == {<<"p1">>, <<"p1", "p2", "p3">>}
SingleModes == {"trueFalse"}
GameModes == {"flashcards", "matching"} \cup SingleModes

Min(a, b) == IF a < b THEN a ELSE b
Max(a, b) == IF a > b THEN a ELSE b
Range(s) == {s[i] : i \in 1..Len(s)}

(***************************************************************************)
(* utils/training.ts: Leitner helpers                                      *)
(***************************************************************************)
LEITNER_BOXES == 3
BOX_WEIGHTS == <<5, 2, 1>>

FreshCard(p) == [personId |-> p, box |-> 0, lastSeen |-> 0, correctStreak |-> 0]

\* initLeitnerCards building the mapping from the roster alone: cards of people
\* who left the roster are dropped
initLeitnerCards_RosterOnly(ppl, existing) ==
    [cards |-> [p \in Range(ppl) |->
                   IF p \in DOMAIN existing THEN existing[p] ELSE FreshCard(p)],
     existing |-> existing]

\* initLeitnerCards returns the new mapping; `existing` is what the caller's
\* object holds afterwards (the code copies it with a spread, so unchanged).
initLeitnerCards(ppl, existing) ==
    [cards |-> [p \in (DOMAIN existing) \cup Range(ppl) |->
                   IF p \in DOMAIN existing THEN existing[p] ELSE FreshCard(p)],
     existing |-> existing]

\* updateLeitnerCard promoting without the cap of the last box
updateLeitnerCard_NoCap(card, correct, now) ==
    IF correct
    THEN [card EXCEPT !.box = card.box + 1,
                      !.lastSeen = now,
                      !.correctStreak = card.correctStreak + 1]
    ELSE [card EXCEPT !.box = 0, !.lastSeen = now, !.correctStreak = 0]

\* updateLeitnerCard promoting straight to the last box
updateLeitnerCard_Jump(card, correct, now) ==
    IF correct
    THEN [card EXCEPT !.box = LEITNER_BOXES - 1,
                      !.lastSeen = now,
                      !.correctStreak = card.correctStreak + 1]
    ELSE [card EXCEPT !.box = 0, !.lastSeen = now, !.correctStreak = 0]

\* updateLeitnerCard demoting by one box on a miss and keeping the streak
updateLeitnerCard_Demote(card, correct, now) ==
    IF correct
    THEN [card EXCEPT !.box = Min(card.box + 1, LEITNER_BOXES - 1),
                      !.lastSeen = now,
                      !.correctStreak = card.correctStreak + 1]
    ELSE [card EXCEPT !.box = Max(card.box - 1, 0), !.lastSeen = now]

updateLeitnerCard(card, correct, now) ==
    IF correct
    THEN [card EXCEPT !.box = Min(card.box + 1, LEITNER_BOXES - 1),
                      !.lastSeen = now,
                      !.correctStreak = card.correctStreak + 1]
    ELSE [card EXCEPT !.box = 0, !.lastSeen = now, !.correctStreak = 0]

\* weight without the recency bonus, which is a value in [0, 10]
BoxWeight(p, cards) ==
    BOX_WEIGHTS[(IF p \in DOMAIN cards THEN Min(cards[p].box, LEITNER_BOXES - 1) ELSE 0) + 1]

\* selectNextPerson: the set of people a call can return
selectNextPerson(ppl, cards, last) ==
    LET candidates == SelectSeq(ppl, LAMBDA p : p # last)
    IN  IF Len(candidates) = 0 THEN {ppl[1]}
        ELSE {candidates[i] : i \in {j \in 1..Len(candidates) :
                                       BoxWeight(candidates[j], cards) > 0}}
             \cup {candidates[1]}

(***************************************************************************)
(* TrainingScreen.tsx: session aggregator                                  *)
(***************************************************************************)
INITIAL_STATS ==
    [totalSessions |-> 0, totalQuestions |-> 0, totalCorrect |-> 0,
     personStats |-> <<>>, leitnerCards |-> <<>>]

emptySessionStats ==
    [correct |-> 0, wrong |-> 0, streak |-> 0, bestStreak |-> 0,
     total |-> 0, accuracy |-> 0, results |-> <<>>]

\* { ...m, [k]: v }
Put(m, k, v) == [x \in (DOMAIN m) \cup {k} |-> IF x = k THEN v ELSE m[x]]

\* foldResult with the streak kept on a miss instead of reset
foldResult_StreakKept(prev, result) ==
    LET newCorrect == prev.correct + (IF result.correct THEN 1 ELSE 0)
        newWrong == prev.wrong + (IF result.correct THEN 0 ELSE 1)
        newTotal == prev.total + 1
        newStreak == IF result.correct THEN prev.streak + 1 ELSE prev.streak
        newBestStreak == Max(prev.bestStreak, newStreak)
    IN  [correct |-> newCorrect, wrong |-> newWrong, streak |-> newStreak,
         bestStreak |-> newBestStreak, total |-> newTotal,
         accuracy |-> IF newTotal > 0 THEN (newCorrect * 100) \div newTotal ELSE 0,
         results |-> Append(prev.results, result)]

\* the updater handleAnswer passes to setSessionStats
foldResult(prev, result) ==
    LET newCorrect == prev.correct + (IF result.correct THEN 1 ELSE 0)
        newWrong == prev.wrong + (IF result.correct THEN 0 ELSE 1)
        newTotal == prev.total + 1
        newStreak == IF result.correct THEN prev.streak + 1 ELSE 0
        newBestStreak == Max(prev.bestStreak, newStreak)
    IN  [correct |-> newCorrect, wrong |-> newWrong, streak |-> newStreak,
         bestStreak |-> newBestStreak, total |-> newTotal,
         accuracy |-> IF newTotal > 0 THEN (newCorrect * 100) \div newTotal ELSE 0,
         results |-> Append(prev.results, result)]

\* the updater handleAnswer passes to setLeitnerCards
cardAfterAnswer(prev, result) ==
    LET card == IF result.personId \in DOMAIN prev
                THEN prev[result.personId] ELSE FreshCard(result.personId)
    IN  Put(prev, result.personId, updateLeitnerCard(card, result.correct, Now))

\* handleAnswer called through a closure created by a render whose state was
\* env; st is the state the updaters run on.
handleAnswer(st, result, env) ==
    LET newStats == foldResult(st.stats, result)
    IN  [stats |-> newStats,
         cards |-> cardAfterAnswer(st.cards, result),
         finish |-> IF env.questionCount # Infinite /\ newStats.total >= env.questionCount
                    THEN Append(st.finish, [stats |-> newStats, env |-> env])
                    ELSE st.finish]

RECURSIVE handleBatchAnswer(_, _, _)
handleBatchAnswer(st, results, env) ==
    IF results = <<>> THEN st
    ELSE handleBatchAnswer(handleAnswer(st, Head(results), env), Tail(results), env)

\* the per-person loop reading every person's entry from the stored statistics
\* instead of the copy being built: a person asked twice is counted once
upsertPersonStats_FromStored(personStats, results, ppl) ==
    LET asked == {results[i].personId : i \in 1..Len(results)}
        lastOf(p) == CHOOSE i \in 1..Len(results) :
                        /\ results[i].personId = p
                        /\ \A j \in 1..Len(results) : results[j].personId = p => j <= i
        stored(p) == IF p \in DOMAIN personStats THEN personStats[p]
                     ELSE [personId |-> p,
                           name |-> IF p \in Range(ppl) THEN NameOf(p) ELSE "",
                           timesAsked |-> 0, timesCorrect |-> 0, accuracy |-> 0]
        right(p) == stored(p).timesCorrect + (IF results[lastOf(p)].correct THEN 1 ELSE 0)
    IN  [p \in (DOMAIN personStats) \cup asked |->
            IF p \in asked
            THEN [stored(p) EXCEPT !.timesAsked = stored(p).timesAsked + 1,
                     !.timesCorrect = right(p),
                     !.accuracy = (right(p) * 100) \div (stored(p).timesAsked + 1)]
            ELSE personStats[p]]

\* the per-person loop of finishSession
RECURSIVE upsertPersonStats(_, _, _)
upsertPersonStats(personStats, results, ppl) ==
    IF results = <<>> THEN personStats
    ELSE LET result == Head(results)
             existing == IF result.personId \in DOMAIN personStats
                         THEN personStats[result.personId]
                         ELSE [personId |-> result.personId,
                               name |-> IF result.personId \in Range(ppl)
                                        THEN NameOf(result.personId) ELSE "",
                               timesAsked |-> 0, timesCorrect |-> 0, accuracy |-> 0]
             asked == existing.timesAsked + 1
             right == existing.timesCorrect + (IF result.correct THEN 1 ELSE 0)
             updated == [existing EXCEPT !.timesAsked = asked, !.timesCorrect = right,
                            !.accuracy = IF asked > 0 THEN (right * 100) \div asked ELSE 0]
         IN  upsertPersonStats(Put(personStats, result.personId, updated),
                               Tail(results), ppl)

\* finishSession(stats) of a render whose overallStats / leitnerCards were
\* overall / cards: the value handed to onUpdateStats
finishSession(overall, cards, stats, ppl) ==
    [totalSessions |-> overall.totalSessions + 1,
     totalQuestions |-> overall.totalQuestions + stats.total,
     totalCorrect |-> overall.totalCorrect + stats.correct,
     personStats |-> upsertPersonStats(overall.personStats, stats.results, ppl),
     leitnerCards |-> cards]

(***************************************************************************)
(* MatchingMode.tsx / generateMatchingRound                                *)
(***************************************************************************)
NoName == "none"
NoSiblings == <<"no siblings">>
Relations == {"parents", "siblings"}

AnswerOf(p, relation) ==
    IF relation = "parents" THEN ParentsOf(p)
    ELSE IF Len(SiblingsOf(p)) > 0 THEN SiblingsOf(p) ELSE NoSiblings

\* useState initial values of MatchingMode
NoRound ==
    [pairs |-> <<>>, relation |-> "parents", selectedName |-> NoName,
     matched |-> {}, roundComplete |-> FALSE, roundResults |-> <<>>]

\* the selection loop: i counts the picks made, remaining shrinks by splice,
\* and the loop condition i < Math.min(4, remaining.length) is re-evaluated
\* remaining.splice(remaining.findIndex(q => q.id === p), 1)
SpliceFirst(remaining, p) ==
    LET hits == {i \in 1..Len(remaining) : remaining[i] = p}
        idx == IF hits = {} THEN 0 ELSE CHOOSE i \in hits : \A j \in hits : i <= j
    IN  IF idx = 0 THEN remaining
        ELSE SubSeq(remaining, 1, idx - 1) \o SubSeq(remaining, idx + 1, Len(remaining))

RECURSIVE pickPeople(_, _, _)
pickPeople(remaining, selected, cards) ==
    IF ~(Len(selected) < Min(4, Len(remaining))) THEN {selected}
    ELSE UNION {pickPeople(SpliceFirst(remaining, p),
                           Append(selected, p), cards) :
                p \in selectNextPerson(remaining, cards,
                        IF selected = <<>> THEN NoPerson ELSE selected[Len(selected)])}

generateMatchingRound(ppl, cards) ==
    {[pairs |-> sel, relation |-> rel] :
        sel \in pickPeople(ppl, <<>>, cards), rel \in Relations}

\* startRound: the states the component can be in after it
startRound(ppl, cards) ==
    {[NoRound EXCEPT !.pairs = r.pairs, !.relation = r.relation] :
        r \in generateMatchingRound(ppl, cards)}

\* pairs.find((p) => p.name === name): index of the first such pair, 0 if none
FindPair(pairs, name) ==
    LET hits == {i \in 1..Len(pairs) : NameOf(pairs[i]) = name}
    IN  IF hits = {} THEN 0 ELSE CHOOSE i \in hits : \A j \in hits : i <= j

\* isUsed of the answer buttons
isUsed(rnd, answer) ==
    \E name \in rnd.matched :
        /\ FindPair(rnd.pairs, name) # 0
        /\ AnswerOf(rnd.pairs[FindPair(rnd.pairs, name)], rnd.relation) = answer

(***************************************************************************)
(* State machine of the training screen                                    *)
(***************************************************************************)
\* the game-mode component is rendered
Mounted == isActive /\ ~isSessionComplete

\* what the closures created by the current render hold
CurrentEnv ==
    [overall |-> overallStats, cards |-> leitnerCards,
     questionCount |-> settings.questionCount]

CurrentSt == [stats |-> sessionStats, cards |-> leitnerCards, finish |-> pendingFinish]

\* a timer of 0 ms is due at once: it runs before the next user event
NoTimerDue == pendingFinish = <<>>

\* the mode component unmounts: its pending callbacks outlive it
Unmounted(pf) == [i \in 1..Len(pf) |-> [pf[i] EXCEPT !.live = FALSE]]

\* the training screen as first rendered with roster ppl
Idle(ppl) ==
    /\ people = ppl
    /\ overallStats = INITIAL_STATS
    /\ settings = [gameMode |-> "flashcards", questionCount |-> SmallCount,
                   showInstantFeedback |-> TRUE]
    /\ isActive = FALSE
    /\ isSessionComplete = FALSE
    /\ sessionStats = emptySessionStats
    /\ leitnerCards = initLeitnerCards(ppl, INITIAL_STATS.leitnerCards).cards
    /\ question = NoPerson
    /\ lastPersonId = NoPerson
    /\ feedback = FALSE
    /\ isFlipped = FALSE
    /\ round = NoRound
    /\ pendingFinish = <<>>
    /\ pendingFeedback = <<>>
    /\ nResponses = 0
    /\ nFolded = 0
    /\ sessionBase = INITIAL_STATS

screen == <<people, overallStats, settings, isActive, isSessionComplete,
            sessionStats, leitnerCards, question, lastPersonId, feedback,
            isFlipped, round, pendingFinish, pendingFeedback,
            nResponses, nFolded, sessionBase>>

Init ==
    /\ \E ppl \in Rosters : Idle(ppl)
    /\ probe = [kind |-> "none"]

\* Bound on the inputs: the game mode is picked before the first session of a
\* behaviour ends; question count and feedback can change between sessions.
ModeChoiceOpen == overallStats.totalSessions = 0 /\ nResponses = 0

\* SettingsView: one control changes one field
UpdateSettings ==
    /\ ~isActive /\ ~isSessionComplete /\ NoTimerDue
    /\ \E s \in [gameMode : GameModes, questionCount : QuestionCounts,
                 showInstantFeedback : BOOLEAN] :
          /\ s # settings
          /\ \/ /\ ModeChoiceOpen
                /\ s.questionCount = settings.questionCount
                /\ s.showInstantFeedback = settings.showInstantFeedback
             \/ s.gameMode = settings.gameMode
                /\ s.showInstantFeedback = settings.showInstantFeedback
             \/ s.gameMode = settings.gameMode
                /\ s.questionCount = settings.questionCount
          /\ settings' = s
    /\ UNCHANGED <<people, overallStats, isActive, isSessionComplete, sessionStats,
                   leitnerCards, question, lastPersonId, feedback, isFlipped, round,
                   pendingFinish, pendingFeedback, nResponses, nFolded, sessionBase,
                   probe>>

\* startSession, then the mount effect of the mode component
\* (nextCard / nextQuestion / startRound)
StartSession ==
    /\ ~Mounted /\ NoTimerDue
    /\ Len(people) # 0
    /\ overallStats.totalSessions < MaxSessions
    /\ nResponses < MaxResponses
    /\ sessionStats' = emptySessionStats
    /\ isSessionComplete' = FALSE
    /\ leitnerCards' = initLeitnerCards(people, overallStats.leitnerCards).cards
    /\ isActive' = TRUE
    /\ sessionBase' = overallStats
    /\ feedback' = FALSE
    /\ isFlipped' = FALSE
    /\ IF settings.gameMode = "matching"
       THEN /\ round' \in startRound(people, leitnerCards')
            /\ question' = NoPerson
            /\ lastPersonId' = NoPerson
       ELSE /\ question' \in selectNextPerson(people, leitnerCards', NoPerson)
            /\ lastPersonId' = question'
            /\ round' = NoRound
    /\ UNCHANGED <<people, overallStats, settings, pendingFinish, pendingFeedback,
                   nResponses, nFolded, probe>>

\* the effect of one finishSession(stats) call of a render with env
Finish(env, stats) ==
    /\ overallStats' = finishSession(env.overall, env.cards, stats, people)
    /\ isActive' = FALSE
    /\ isSessionComplete' = TRUE
    /\ question' = NoPerson
    /\ lastPersonId' = NoPerson
    /\ feedback' = FALSE
    /\ isFlipped' = FALSE
    /\ round' = NoRound

\* ProgressHeader onEndSession
EndSession ==
    /\ Mounted /\ NoTimerDue
    /\ Finish(CurrentEnv, sessionStats)
    /\ pendingFeedback' = Unmounted(pendingFeedback)
    /\ UNCHANGED <<people, settings, sessionStats, leitnerCards, pendingFinish,
                   nResponses, nFolded, sessionBase, probe>>

\* the callback of setTimeout(() => finishSession(newStats), 0)
FinishTimer ==
    /\ pendingFinish # <<>>
    /\ Finish(Head(pendingFinish).env, Head(pendingFinish).stats)
    /\ pendingFinish' = Tail(pendingFinish)
    /\ pendingFeedback' = Unmounted(pendingFeedback)
    /\ UNCHANGED <<people, settings, sessionStats, leitnerCards,
                   nResponses, nFolded, sessionBase, probe>>

\* SessionCompleteView onBackToSettings
BackToSettings ==
    /\ isSessionComplete /\ NoTimerDue
    /\ isSessionComplete' = FALSE
    /\ isActive' = FALSE
    /\ UNCHANGED <<people, overallStats, settings, sessionStats, leitnerCards,
                   question, lastPersonId, feedback, isFlipped, round,
                   pendingFinish, pendingFeedback, nResponses, nFolded,
                   sessionBase, probe>>

\* the three setState calls of handleAnswer / handleUpdateCard take effect
ApplySt(st) ==
    /\ sessionStats' = st.stats
    /\ leitnerCards' = st.cards
    /\ pendingFinish' = st.finish

\* FlashcardMode: the card is clicked
FlipCard ==
    /\ Mounted /\ NoTimerDue
    /\ settings.gameMode = "flashcards"
    /\ question # NoPerson /\ ~isFlipped
    /\ isFlipped' = TRUE
    /\ UNCHANGED <<people, overallStats, settings, isActive, isSessionComplete,
                   sessionStats, leitnerCards, question, lastPersonId, feedback,
                   round, pendingFinish, pendingFeedback, nResponses, nFolded,
                   sessionBase, probe>>

\* FlashcardMode handleRate: onUpdateCard, onAnswer, then nextCard unless the
\* count is reached
handleRate(rating) ==
    /\ Mounted /\ NoTimerDue
    /\ settings.gameMode = "flashcards"
    /\ question # NoPerson /\ isFlipped
    /\ nResponses < MaxResponses
    /\ LET person == question
           currentCard == IF person \in DOMAIN leitnerCards
                          THEN leitnerCards[person] ELSE FreshCard(person)
           updatedCard ==
               IF rating = "easy"
               THEN updateLeitnerCard(
                        [currentCard EXCEPT !.box = Min(currentCard.box + 1, 2)],
                        TRUE, Now)
               ELSE IF rating = "good"
                    THEN updateLeitnerCard(currentCard, TRUE, Now)
                    ELSE updateLeitnerCard(currentCard, FALSE, Now)
           st0 == [CurrentSt EXCEPT !.cards = Put(leitnerCards, person, updatedCard)]
           result == [personId |-> person, correct |-> rating # "hard"]
       IN  /\ ApplySt(handleAnswer(st0, result, CurrentEnv))
           /\ IF settings.questionCount # Infinite
                 /\ sessionStats.total + 1 >= settings.questionCount
              THEN UNCHANGED <<question, lastPersonId, isFlipped>>
              ELSE /\ question' \in selectNextPerson(people, leitnerCards, lastPersonId)
                   /\ lastPersonId' = question'
                   /\ isFlipped' = FALSE
    /\ nResponses' = nResponses + 1
    /\ nFolded' = nFolded + 1
    /\ UNCHANGED <<people, overallStats, settings, isActive, isSessionComplete,
                   feedback, round, pendingFeedback, sessionBase, probe>>

Rate == \E rating \in {"hard", "good", "easy"} : handleRate(rating)

\* TrueFalseMode handleAnswer (MultipleChoiceMode, FillBlankMode and
\* SpeedRoundMode report their result the same way): with instant feedback the
\* result is reported by a delayed callback, otherwise at once
AnswerSingle ==
    /\ Mounted /\ NoTimerDue
    /\ settings.gameMode \in SingleModes
    /\ question # NoPerson /\ ~feedback
    /\ nResponses < MaxResponses
    /\ \E correct \in BOOLEAN :
          LET result == [personId |-> question, correct |-> correct]
          IN  IF settings.showInstantFeedback
              THEN /\ feedback' = TRUE
                   /\ pendingFeedback' = Append(pendingFeedback,
                          [result |-> result, env |-> CurrentEnv,
                           last |-> lastPersonId, live |-> TRUE])
                   /\ UNCHANGED <<sessionStats, leitnerCards, pendingFinish,
                                  question, lastPersonId, nFolded>>
              ELSE /\ ApplySt(handleAnswer(CurrentSt, result, CurrentEnv))
                   /\ question' \in selectNextPerson(people, leitnerCards, lastPersonId)
                   /\ lastPersonId' = question'
                   /\ feedback' = FALSE
                   /\ nFolded' = nFolded + 1
                   /\ UNCHANGED pendingFeedback
    /\ nResponses' = nResponses + 1
    /\ UNCHANGED <<people, overallStats, settings, isActive, isSessionComplete,
                   isFlipped, round, sessionBase, probe>>

\* the delayed callback: onAnswer(result); nextQuestion() with the closures of
\* the render that scheduled it; nextQuestion only has an effect while the
\* component that scheduled it is still mounted
FeedbackTimer ==
    /\ pendingFeedback # <<>>
    /\ LET t == Head(pendingFeedback)
       IN  /\ ApplySt(handleAnswer(CurrentSt, t.result, t.env))
           /\ IF t.live
              THEN /\ question' \in selectNextPerson(people, t.env.cards, t.last)
                   /\ lastPersonId' = question'
                   /\ feedback' = FALSE
              ELSE UNCHANGED <<question, lastPersonId, feedback>>
    /\ pendingFeedback' = Tail(pendingFeedback)
    /\ nFolded' = nFolded + 1
    /\ UNCHANGED <<people, overallStats, settings, isActive, isSessionComplete,
                   isFlipped, round, nResponses, sessionBase, probe>>

PairNames(rnd) == {NameOf(rnd.pairs[i]) : i \in 1..Len(rnd.pairs)}
PairAnswers(rnd) == {AnswerOf(rnd.pairs[i], rnd.relation) : i \in 1..Len(rnd.pairs)}

\* MatchingMode handleNameClick (a matched name's button is disabled)
NameClick ==
    /\ Mounted /\ NoTimerDue
    /\ settings.gameMode = "matching"
    /\ \E name \in PairNames(round) :
          /\ name \notin round.matched
          /\ round' = [round EXCEPT !.selectedName =
                          IF round.selectedName = name THEN NoName ELSE name]
    /\ UNCHANGED <<people, overallStats, settings, isActive, isSessionComplete,
                   sessionStats, leitnerCards, question, lastPersonId, feedback,
                   isFlipped, pendingFinish, pendingFeedback, nResponses, nFolded,
                   sessionBase, probe>>

\* MatchingMode handleAnswerClick (a used answer's button is disabled, and
\* every answer button is while no name is selected)
handleAnswerClick(answer) ==
    /\ Mounted /\ NoTimerDue
    /\ settings.gameMode = "matching"
    /\ ~isUsed(round, answer)
    /\ round.selectedName # NoName
    /\ FindPair(round.pairs, round.selectedName) # 0
    /\ nResponses < MaxResponses
    /\ LET pair == round.pairs[FindPair(round.pairs, round.selectedName)]
           pairAnswer == AnswerOf(pair, round.relation)
       IN  IF pairAnswer = answer
           THEN LET newMatched == round.matched \cup {round.selectedName}
                    result == [personId |-> pair, correct |-> TRUE]
                    newResults == Append(round.roundResults, result)
                    complete == Cardinality(newMatched) = Len(round.pairs)
                IN  /\ round' = [round EXCEPT !.matched = newMatched,
                                    !.selectedName = NoName,
                                    !.roundResults = newResults,
                                    !.roundComplete = complete \/ round.roundComplete]
                    /\ IF complete
                       THEN /\ ApplySt(handleBatchAnswer(CurrentSt, newResults, CurrentEnv))
                            /\ nFolded' = nFolded + Len(newResults)
                       ELSE UNCHANGED <<sessionStats, leitnerCards, pendingFinish, nFolded>>
           ELSE LET result == [personId |-> pair, correct |-> FALSE]
                IN  /\ round' = [round EXCEPT !.roundResults = Append(@, result)]
                    /\ ApplySt(handleBatchAnswer(CurrentSt, <<result>>, CurrentEnv))
                    /\ nFolded' = nFolded + 1
    /\ nResponses' = nResponses + 1
    /\ UNCHANGED <<people, overallStats, settings, isActive, isSessionComplete,
                   question, lastPersonId, feedback, isFlipped, pendingFeedback,
                   sessionBase, probe>>

AnswerClick == \E answer \in PairAnswers(round) : handleAnswerClick(answer)

\* the "next round" button of a completed round: startRound
NextRound ==
    /\ Mounted /\ NoTimerDue
    /\ settings.gameMode = "matching"
    /\ round.roundComplete
    /\ round' \in startRound(people, leitnerCards)
    /\ UNCHANGED <<people, overallStats, settings, isActive, isSessionComplete,
                   sessionStats, leitnerCards, question, lastPersonId, feedback,
                   isFlipped, pendingFinish, pendingFeedback, nResponses, nFolded,
                   sessionBase, probe>>

Next ==
    \/ UpdateSettings
    \/ StartSession
    \/ EndSession
    \/ FinishTimer
    \/ BackToSettings
    \/ FlipCard
    \/ Rate
    \/ AnswerSingle
    \/ FeedbackTimer
    \/ NameClick
    \/ AnswerClick
    \/ NextRound

Spec == Init /\ [][Next]_vars

(***************************************************************************)
(* Claims                                                                  *)
(***************************************************************************)
\* a step in which a session terminates
Terminates == ~isSessionComplete /\ isSessionComplete'

\* C1: when a session terminates, the card mapping written to
\* overallStats.leitnerCards is the live mapping, the update of the final
\* answer included.
C1_SnapshotIsCurrent ==
    [][Terminates => overallStats'.leitnerCards = leitnerCards']_vars

\* C2: every user response is folded into the session statistics exactly once,
\* so no more results have been folded than responses were given.
C2_FoldedOnce == nFolded <= nResponses

\* C3: with a finite question count the running total never exceeds the count.
C3_TotalWithinCount ==
    (Mounted /\ settings.questionCount # Infinite)
        => sessionStats.total <= settings.questionCount

\* the people asked in a result list, and how often (correctly) each was
AskedIn(results) == {results[i].personId : i \in 1..Len(results)}
TimesIn(results, p) == Cardinality({i \in 1..Len(results) : results[i].personId = p})
CorrectIn(results, p) ==
    Cardinality({i \in 1..Len(results) : results[i].personId = p /\ results[i].correct})

\* after is before changed by one session whose statistics are stats
FoldedBy(before, after, stats) ==
    /\ after.totalSessions = before.totalSessions + 1
    /\ after.totalQuestions = before.totalQuestions + stats.total
    /\ after.totalCorrect = before.totalCorrect + stats.correct
    /\ DOMAIN after.personStats = (DOMAIN before.personStats) \cup AskedIn(stats.results)
    /\ \A p \in DOMAIN after.personStats :
          IF p \in AskedIn(stats.results)
          THEN LET asked == IF p \in DOMAIN before.personStats
                            THEN before.personStats[p].timesAsked ELSE 0
                   right == IF p \in DOMAIN before.personStats
                            THEN before.personStats[p].timesCorrect ELSE 0
               IN  /\ after.personStats[p].timesAsked = asked + TimesIn(stats.results, p)
                   /\ after.personStats[p].timesCorrect = right + CorrectIn(stats.results, p)
          ELSE after.personStats[p] = before.personStats[p]

\* C4: once the finish callbacks of a session have run, overallStats is the
\* overallStats of the session's start changed by exactly one session with the
\* session's statistics.
C4_TerminationFold ==
    [][(overallStats' # overallStats /\ pendingFinish' = <<>>)
          => FoldedBy(sessionBase, overallStats', sessionStats)]_vars

\* C7: every card of the live mapping and of overallStats.leitnerCards has a
\* box in {0, 1, 2} and a correctStreak >= 0.
C7_BoxInRange ==
    \A m \in {leitnerCards, overallStats.leitnerCards} :
        \A p \in DOMAIN m : m[p].box \in {0, 1, 2} /\ m[p].correctStreak >= 0

\* a flashcard session that rated one card twice as known and was stored
C7_Witness ==
    /\ settings.gameMode = "flashcards"
    /\ overallStats.totalSessions > 0
    /\ \E p \in DOMAIN overallStats.leitnerCards :
          /\ overallStats.leitnerCards[p].box = 2
          /\ p \in DOMAIN leitnerCards
          /\ leitnerCards[p].correctStreak >= 4


(***************************************************************************)
(* The session fold on its own: results are folded one by one from         *)
(* emptySessionStats, and the log is merged into a stored OverallStats as  *)
(* one session or as two.                                                  *)
(***************************************************************************)
\* results of one folding run
MaxFold == 4

Results == [personId : PersonIds, correct : BOOLEAN]

StoredPersonStats(p, asked, right) ==
    [personId |-> p, name |-> NameOf(p), timesAsked |-> asked, timesCorrect |-> right,
     accuracy |-> IF asked > 0 THEN (right * 100) \div asked ELSE 0]

\* OverallStats a session can start from
OverallInputs ==
    {INITIAL_STATS,
     [INITIAL_STATS EXCEPT !.totalSessions = 1, !.totalQuestions = 2, !.totalCorrect = 1,
          !.personStats = [p \in {"p1"} |-> StoredPersonStats(p, 2, 1)]],
     [INITIAL_STATS EXCEPT !.totalSessions = 2, !.totalQuestions = 4, !.totalCorrect = 3,
          !.personStats = [p \in {"p2", "p3"} |->
                              StoredPersonStats(p, 2, IF p = "p2" THEN 2 ELSE 1)]]}

\* SessionStats of a session whose answers were results
RECURSIVE foldAll(_, _)
foldAll(stats, results) ==
    IF results = <<>> THEN stats
    ELSE foldAll(foldResult(stats, Head(results)), Tail(results))

FoldInit ==
    /\ Idle(<<"p1", "p2", "p3">>)
    /\ \E base \in OverallInputs :
          probe = [kind |-> "fold", base |-> base, stats |-> emptySessionStats,
                   split |-> 0, whole |-> base, parts |-> base, merged |-> FALSE]

\* one more answer is folded
FoldStep ==
    /\ probe.kind = "fold" /\ ~probe.merged
    /\ probe.stats.total < MaxFold
    /\ \E result \in Results :
          probe' = [probe EXCEPT !.stats = foldResult(probe.stats, result)]
    /\ UNCHANGED screen

\* the log is merged as one session, and as the two sessions it splits into
\* after its first k results
MergeSplit ==
    /\ probe.kind = "fold" /\ ~probe.merged
    /\ \E k \in 0..Len(probe.stats.results) :
          LET log == probe.stats.results
              first == foldAll(emptySessionStats, SubSeq(log, 1, k))
              second == foldAll(emptySessionStats, SubSeq(log, k + 1, Len(log)))
              afterFirst == finishSession(probe.base, leitnerCards, first, people)
          IN  probe' = [probe EXCEPT
                  !.split = k,
                  !.whole = finishSession(probe.base, leitnerCards, probe.stats, people),
                  !.parts = finishSession(afterFirst, leitnerCards, second, people),
                  !.merged = TRUE]
    /\ UNCHANGED screen

FoldNext == FoldStep \/ MergeSplit

SpecFold == FoldInit /\ [][FoldNext]_vars

\* length of the run of correct results that ends at position n of log
RECURSIVE RunEndingAt(_, _)
RunEndingAt(log, n) ==
    IF n = 0 \/ ~log[n].correct THEN 0 ELSE 1 + RunEndingAt(log, n - 1)

LongestRun(log) ==
    IF log = <<>> THEN 0
    ELSE CHOOSE m \in {RunEndingAt(log, n) : n \in 1..Len(log)} :
            \A n \in 1..Len(log) : RunEndingAt(log, n) <= m

\* C5: the running counters equal the reference fold of the result log.
C5_CountersMatchLog ==
    probe.kind = "fold" =>
        LET st == probe.stats
            log == st.results
        IN  /\ st.total = st.correct + st.wrong
            /\ st.total = Len(log)
            /\ st.correct = Cardinality({i \in 1..Len(log) : log[i].correct})
            /\ st.streak = RunEndingAt(log, Len(log))
            /\ st.bestStreak = LongestRun(log)
            /\ st.streak <= st.bestStreak
            /\ st.bestStreak <= st.correct

\* a log whose trailing run, longest run and number of correct results differ
C5_Witness ==
    /\ probe.kind = "fold"
    /\ probe.stats.streak = 1
    /\ probe.stats.bestStreak = 2
    /\ probe.stats.correct = 3
    /\ probe.stats.wrong = 1

\* the counters the claim compares: totals and per-person asked / correct
Counters(overall) ==
    <<overall.totalQuestions, overall.totalCorrect,
      [p \in DOMAIN overall.personStats |->
          <<overall.personStats[p].timesAsked, overall.personStats[p].timesCorrect>>]>>

\* C6: folding a log as one session or as two sessions, split anywhere, gives
\* the same totalQuestions, totalCorrect and per-person counters.
C6_SplitIndependent ==
    (probe.kind = "fold" /\ probe.merged) => Counters(probe.whole) = Counters(probe.parts)

\* [r1, r2, r3] merged as [r1] then [r2, r3] into stored statistics that
\* already know one of the people asked
C6_Witness ==
    /\ probe.kind = "fold" /\ probe.merged
    /\ Len(probe.stats.results) = 3
    /\ probe.split = 1
    /\ probe.base.totalQuestions > 0
    /\ probe.stats.results[1].personId = probe.stats.results[3].personId
    /\ probe.stats.results[1].personId \in DOMAIN probe.base.personStats
    /\ probe.stats.results[2].personId \notin DOMAIN probe.base.personStats
    /\ probe.stats.correct = 2

(***************************************************************************)
(* The Leitner helpers on their own: updateLeitnerCard applied repeatedly  *)
(* to one card, and initLeitnerCards applied to a roster and a stored      *)
(* mapping.                                                                *)
(***************************************************************************)
CardInputs ==
    [personId : PersonIds, box : 0..(LEITNER_BOXES - 1),
     lastSeen : 0..MaxStamp, correctStreak : 0..MaxStamp]

\* stored mappings: any subset of the people, each with one of a few cards
StoredCards(p) ==
    {FreshCard(p),
     [personId |-> p, box |-> 1, lastSeen |-> 1, correctStreak |-> 1],
     [personId |-> p, box |-> 2, lastSeen |-> 2, correctStreak |-> 3],
     [personId |-> p, box |-> 0, lastSeen |-> 2, correctStreak |-> 0]}

CardMaps ==
    UNION {{m \in [S -> UNION {StoredCards(p) : p \in S}] :
               \A p \in S : m[p].personId = p} : S \in SUBSET PersonIds}

RosterInputs ==
    {<<>>, <<"p1">>, <<"p2">>, <<"p1", "p2">>, <<"p3", "p1">>, <<"p1", "p2", "p3">>}

LeitnerInit ==
    /\ Idle(<<"p1", "p2", "p3">>)
    /\ \/ \E c \in CardInputs :
             probe = [kind |-> "card", card |-> c, prev |-> c, start |-> c,
                      run |-> 0, last |-> "none"]
       \/ \E ppl \in RosterInputs, existing \in CardMaps :
             probe = [kind |-> "init", people |-> ppl, arg |-> existing,
                      cards |-> existing, held |-> existing, applied |-> 0]

\* updateLeitnerCard(card, true)
UpdateCorrect ==
    /\ probe.kind = "card"
    /\ probe.run < MaxRun
    /\ \E now \in Timestamps :
          probe' = [probe EXCEPT !.card = updateLeitnerCard(probe.card, TRUE, now),
                                 !.prev = probe.card,
                                 !.run = probe.run + 1,
                                 !.last = "correct"]
    /\ UNCHANGED screen

\* updateLeitnerCard(card, false); a new run of correct answers starts from
\* the card it returns
UpdateWrong ==
    /\ probe.kind = "card"
    /\ \E now \in Timestamps :
          LET updated == updateLeitnerCard(probe.card, FALSE, now)
          IN  probe' = [probe EXCEPT !.card = updated, !.prev = probe.card,
                                     !.start = updated, !.run = 0, !.last = "wrong"]
    /\ UNCHANGED screen

\* cards = initLeitnerCards(people, cards)
ApplyInitCards ==
    /\ probe.kind = "init"
    /\ probe.applied < 2
    /\ LET r == initLeitnerCards(probe.people, probe.cards)
       IN  probe' = [probe EXCEPT !.arg = probe.cards, !.cards = r.cards,
                                  !.held = r.existing, !.applied = probe.applied + 1]
    /\ UNCHANGED screen

LeitnerNext == UpdateCorrect \/ UpdateWrong \/ ApplyInitCards

SpecLeitner == LeitnerInit /\ [][LeitnerNext]_vars

\* C8: a correct update sets box to min(box + 1, 2) and adds 1 to
\* correctStreak; k correct updates in a row from box 0 leave box = min(k, 2)
\* and correctStreak grown by k.
C8_CorrectPromotes ==
    (probe.kind = "card" /\ probe.last = "correct") =>
        /\ probe.card.box = Min(probe.prev.box + 1, 2)
        /\ probe.card.correctStreak = probe.prev.correctStreak + 1
        /\ probe.start.box = 0 => probe.card.box = Min(probe.run, 2)
        /\ probe.card.correctStreak = probe.start.correctStreak + probe.run

\* five correct updates in a row from box 0
C8_Witness ==
    /\ probe.kind = "card" /\ probe.last = "correct"
    /\ probe.start.box = 0
    /\ probe.run = 5
    /\ probe.card.box = 2

\* C9: an incorrect update returns box 0 and correctStreak 0 whatever the card
\* was, and keeps personId.
C9_WrongResets ==
    (probe.kind = "card" /\ probe.last = "wrong") =>
        /\ probe.card.box = 0
        /\ probe.card.correctStreak = 0
        /\ probe.card.personId = probe.prev.personId

\* a miss on a card of the last box with a streak
C9_Witness ==
    /\ probe.kind = "card" /\ probe.last = "wrong"
    /\ probe.prev.box = 2
    /\ probe.prev.correctStreak > 0

\* C10: initLeitnerCards keeps every existing card (also of people absent from
\* the roster), adds a fresh card for every roster person without one, adds
\* no other key, leaves its argument alone, and applied again changes nothing.
C10_InitCardsFrame ==
    (probe.kind = "init" /\ probe.applied > 0) =>
        /\ DOMAIN probe.cards = (DOMAIN probe.arg) \cup Range(probe.people)
        /\ \A p \in DOMAIN probe.arg : probe.cards[p] = probe.arg[p]
        /\ \A p \in Range(probe.people) \ DOMAIN probe.arg : probe.cards[p] = FreshCard(p)
        /\ probe.held = probe.arg
        /\ probe.applied = 2 => probe.cards = probe.arg

\* a stored mapping with a promoted card of somebody absent from the roster,
\* and a roster person without a card
C10_Witness ==
    /\ probe.kind = "init" /\ probe.applied = 1
    /\ \E p \in DOMAIN probe.arg : p \notin Range(probe.people) /\ probe.arg[p].box = 2
    /\ \E p \in Range(probe.people) : p \notin DOMAIN probe.arg
    /\ \E p \in Range(probe.people) : p \in DOMAIN probe.arg /\ probe.arg[p].box = 1

(***************************************************************************)
(* Selection on its own: selectNextPerson and generateMatchingRound        *)
(* applied to a roster, a card mapping and an excluded id.  A roster is    *)
(* the sequence of its people's ids; two people whose generated ids        *)
(* collide appear as the same id twice.                                    *)
(***************************************************************************)
\* people of a roster given to the selection
MaxRoster == 3

SelectRosters == UNION {[1..n -> PersonIds] : n \in 1..MaxRoster}

DistinctIds(ppl) == \A i, j \in 1..Len(ppl) : i # j => ppl[i] # ppl[j]

SelectInit ==
    /\ Idle(<<"p1", "p2", "p3">>)
    /\ \E ppl \in SelectRosters, cards \in CardMaps, ex \in PersonIds \cup {NoPerson} :
          probe = [kind |-> "select", people |-> ppl, cards |-> cards, excludeId |-> ex,
                   op |-> "none", returned |-> NoPerson, pairs |-> <<>>]

\* selectNextPerson(people, cards, excludeId)
SelectNext ==
    /\ probe.kind = "select" /\ probe.op = "none"
    /\ \E p \in selectNextPerson(probe.people, probe.cards, probe.excludeId) :
          probe' = [probe EXCEPT !.op = "select", !.returned = p]
    /\ UNCHANGED screen

\* generateMatchingRound(people, cards)
GenerateRound ==
    /\ probe.kind = "select" /\ probe.op = "none"
    /\ \E r \in generateMatchingRound(probe.people, probe.cards) :
          probe' = [probe EXCEPT !.op = "round", !.pairs = r.pairs]
    /\ UNCHANGED screen

SelectStep == SelectNext \/ GenerateRound

SpecSelect == SelectInit /\ [][SelectStep]_vars

\* C11: selectNextPerson returns a member of the roster, never the excluded id
\* when the roster has at least 2 people, and the only person of a 1-person
\* roster also when excluded.
C11_NeverExcluded ==
    (probe.kind = "select" /\ probe.op = "select") =>
        /\ probe.returned \in Range(probe.people)
        /\ Len(probe.people) >= 2 => probe.returned # probe.excludeId
        /\ Len(probe.people) = 1 => probe.returned = probe.people[1]

\* C12: a matching round on a roster of N people (with distinct ids) has
\* min(4, N) pairs with pairwise distinct personIds.
C12_PairsPerRound ==
    (probe.kind = "select" /\ probe.op = "round" /\ DistinctIds(probe.people)) =>
        /\ Len(probe.pairs) = Min(4, Len(probe.people))
        /\ DistinctIds(probe.pairs)

(***************************************************************************)
(* utils/parser.ts: parsePeopleText.  A text is a sequence of characters;  *)
(* an error message is represented by its kind and the numbers it embeds.  *)
(***************************************************************************)
\* lines of an input text
MaxLines == 6

LF == "\n"
Whitespace == {" ", "\r"}

\* text.split('\n')
RECURSIVE splitLines(_)
splitLines(text) ==
    LET cut == {i \in 1..Len(text) : text[i] = LF}
    IN  IF cut = {} THEN <<text>>
        ELSE LET i == CHOOSE k \in cut : \A j \in cut : k <= j
             IN  <<SubSeq(text, 1, i - 1)>> \o splitLines(SubSeq(text, i + 1, Len(text)))

\* line.trim()
trim(line) ==
    LET solid == {i \in 1..Len(line) : line[i] \notin Whitespace}
    IN  IF solid = {} THEN <<>>
        ELSE SubSeq(line, CHOOSE i \in solid : \A j \in solid : i <= j,
                          CHOOSE i \in solid : \A j \in solid : i >= j)

\* a variant that filters the lines before trimming them
nonEmptyLines_FilterFirst(text) ==
    LET kept == SelectSeq(splitLines(text), LAMBDA line : Len(line) > 0)
    IN  [i \in 1..Len(kept) |-> trim(kept[i])]

\* allLines.filter((line) => line.length > 0) of the trimmed lines
nonEmptyLines(text) ==
    LET split == splitLines(text)
        allLines == [i \in 1..Len(split) |-> trim(split[i])]
    IN  SelectSeq(allLines, LAMBDA line : Len(line) > 0)

\* a variant that splits at every single space and keeps the empty tokens
RECURSIVE splitWhitespace_EachSpace(_)
splitWhitespace_EachSpace(line) ==
    LET cut == {i \in 1..Len(line) : line[i] \in Whitespace}
    IN  IF cut = {} THEN <<line>>
        ELSE LET i == CHOOSE k \in cut : \A j \in cut : k <= j
             IN  <<SubSeq(line, 1, i - 1)>>
                     \o splitWhitespace_EachSpace(SubSeq(line, i + 1, Len(line)))

\* line.split(/\s+/).filter((s) => s.length > 0)
RECURSIVE splitWhitespace(_)
splitWhitespace(line) ==
    LET solid == {i \in 1..Len(line) : line[i] \notin Whitespace}
    IN  IF solid = {} THEN <<>>
        ELSE LET from == CHOOSE i \in solid : \A j \in solid : i <= j
                 stops == {i \in from..Len(line) : line[i] \in Whitespace}
                 to == IF stops = {} THEN Len(line)
                       ELSE (CHOOSE i \in stops : \A j \in stops : i <= j) - 1
             IN  <<SubSeq(line, from, to)>>
                     \o splitWhitespace(SubSeq(line, to + 1, Len(line)))

\* outcomes of generateId: Math.random().toString(36).substring(2, 11)
IdValues == {"id1", "id2"}

\* a variant that reports the leading lines
remainderLines_Leading(lines) == SubSeq(lines, 1, Len(lines) % 3)

\* nonEmptyLines.slice(nonEmptyLines.length - remainder)
remainderLines(lines) == SubSeq(lines, Len(lines) - (Len(lines) % 3) + 1, Len(lines))

\* the loop over the triples; ids[i] is what the i-th generateId() returns
buildPeople(lines, ids) ==
    [i \in 1..(Len(lines) \div 3) |->
        [id |-> ids[i],
         name |-> lines[3 * i - 2],
         parents |-> splitWhitespace(lines[3 * i - 1]),
         siblings |-> splitWhitespace(lines[3 * i])]]

Failure(kind, count, rest) ==
    [success |-> FALSE, people |-> <<>>,
     message |-> [kind |-> kind, count |-> count], remainderLines |-> rest]

\* a variant without the empty-input branch
parsePeopleText_NoEmptyCheck(text, ids) ==
    LET lines == nonEmptyLines(text)
    IN  IF Len(lines) % 3 # 0
        THEN Failure(IF Len(lines) % 3 = 1 THEN "one line" ELSE "lines",
                     Len(lines), remainderLines(lines))
        ELSE [success |-> TRUE, people |-> buildPeople(lines, ids),
              message |-> [kind |-> "none", count |-> 0], remainderLines |-> <<>>]

parsePeopleText(text, ids) ==
    LET lines == nonEmptyLines(text)
    IN  IF Len(lines) = 0 THEN Failure("empty", 0, <<>>)
        ELSE IF Len(lines) % 3 # 0
        THEN Failure(IF Len(lines) % 3 = 1 THEN "one line" ELSE "lines",
                     Len(lines), remainderLines(lines))
        ELSE [success |-> TRUE, people |-> buildPeople(lines, ids),
              message |-> [kind |-> "none", count |-> 0], remainderLines |-> <<>>]

\* The lines an input text is made of: an empty line, a whitespace-only
\* line, a one-word line with a trailing CR, a two-word line with leading,
\* doubled and trailing spaces.
LineKinds ==
    << <<>>,
       <<" ", "\r">>,
       <<"a", "\r">>,
       <<" ", "b", " ", " ", "c", " ">> >>

\* what each kind of line holds: its text without the surrounding whitespace
\* and its words
ContentOf == << <<>>, <<>>, <<"a">>, <<"b", " ", " ", "c">> >>
WordsOf == << <<>>, <<>>, << <<"a">> >>, << <<"b">>, <<"c">> >> >>
BlankKinds == {k \in 1..Len(LineKinds) : ContentOf[k] = <<>>}

\* the text whose lines are of the kinds ks
RECURSIVE TextOf(_)
TextOf(ks) ==
    IF Len(ks) = 0 THEN <<>>
    ELSE IF Len(ks) = 1 THEN LineKinds[ks[1]]
    ELSE LineKinds[ks[1]] \o <<LF>> \o TextOf(Tail(ks))

NoResult == Failure("not parsed", 0, <<>>)

ParseInit ==
    /\ Idle(<<"p1", "p2", "p3">>)
    /\ \E n \in 1..MaxLines : \E ks \in [1..n -> 1..Len(LineKinds)] :
          probe = [kind |-> "parse", lines |-> ks, text |-> TextOf(ks), op |-> "none",
                   before |-> NoResult, result |-> NoResult]

IdDraws == [1..((MaxLines + 1) \div 3) -> IdValues]

\* parsePeopleText(text)
ParseText ==
    /\ probe.kind = "parse" /\ probe.op = "none"
    /\ \E ids \in IdDraws :
          probe' = [probe EXCEPT !.op = "parsed",
                                 !.result = parsePeopleText(probe.text, ids)]
    /\ UNCHANGED screen

\* ks with a line of kind k inserted after its first pos lines
InsertAt(ks, pos, k) == SubSeq(ks, 1, pos) \o <<k>> \o SubSeq(ks, pos + 1, Len(ks))
RemoveAt(ks, pos) == SubSeq(ks, 1, pos - 1) \o SubSeq(ks, pos + 1, Len(ks))

\* the ids of the first parse and of the second: the generator is called anew
FirstIds == [i \in 1..((MaxLines + 1) \div 3) |-> "id1"]
SecondIds == [i \in 1..((MaxLines + 1) \div 3) |-> "id2"]

Reparsed(ks) ==
    [probe EXCEPT !.op = "edited", !.lines = ks, !.text = TextOf(ks),
                  !.before = parsePeopleText(probe.text, FirstIds),
                  !.result = parsePeopleText(TextOf(ks), SecondIds)]

\* the text is parsed, a blank or whitespace-only line is inserted anywhere,
\* and the text is parsed again
InsertBlankLine ==
    /\ probe.kind = "parse" /\ probe.op = "none"
    /\ \E pos \in 0..Len(probe.lines), k \in BlankKinds :
          probe' = Reparsed(InsertAt(probe.lines, pos, k))
    /\ UNCHANGED screen

\* the same with a blank or whitespace-only line deleted
DeleteBlankLine ==
    /\ probe.kind = "parse" /\ probe.op = "none"
    /\ Len(probe.lines) > 1
    /\ \E pos \in 1..Len(probe.lines) :
          /\ probe.lines[pos] \in BlankKinds
          /\ probe' = Reparsed(RemoveAt(probe.lines, pos))
    /\ UNCHANGED screen

ParseNext == ParseText \/ InsertBlankLine \/ DeleteBlankLine

SpecParse == ParseInit /\ [][ParseNext]_vars

\* the kinds of the lines of ks that hold text, in order
Solid(ks) == SelectSeq(ks, LAMBDA k : k \notin BlankKinds)
Parsed == probe.kind = "parse" /\ probe.op = "parsed"

\* C13: with c non-empty lines, c not divisible by 3, parse fails, returns no
\* person, and remainderLines is the last c mod 3 non-empty trimmed lines.
C13_RemainderLines ==
    LET solid == Solid(probe.lines)
        c == Len(solid)
    IN  (Parsed /\ c % 3 # 0) =>
            /\ ~probe.result.success
            /\ probe.result.people = <<>>
            /\ probe.result.remainderLines =
                   [i \in 1..(c % 3) |-> ContentOf[solid[c - (c % 3) + i]]]

\* five non-empty lines with blank lines among them: two lines remain
C13_Witness ==
    /\ Parsed
    /\ Len(Solid(probe.lines)) = 5
    /\ Len(probe.lines) > 5
    /\ probe.result.remainderLines = <<ContentOf[4], ContentOf[3]>>

\* C14: with 3k non-empty lines, k >= 1, parse succeeds with k people in order
\* of appearance: name the trimmed first line, parents and siblings the words
\* of the second and third line.
C14_PeoplePerBlock ==
    LET solid == Solid(probe.lines)
        c == Len(solid)
    IN  (Parsed /\ c > 0 /\ c % 3 = 0) =>
            /\ probe.result.success
            /\ Len(probe.result.people) = c \div 3
            /\ \A i \in 1..(c \div 3) :
                  /\ probe.result.people[i].name = ContentOf[solid[3 * i - 2]]
                  /\ probe.result.people[i].parents = WordsOf[solid[3 * i - 1]]
                  /\ probe.result.people[i].siblings = WordsOf[solid[3 * i]]
                  /\ <<>> \notin Range(probe.result.people[i].parents)
                  /\ <<>> \notin Range(probe.result.people[i].siblings)

\* two people, the second with a two-word name, two parents and one sibling
C14_Witness ==
    /\ Parsed
    /\ Solid(probe.lines) = <<3, 4, 4, 4, 4, 3>>
    /\ Len(probe.result.people) = 2
    /\ probe.result.people[2].name = ContentOf[4]
    /\ Len(probe.result.people[1].siblings) = 2

\* C15: the ids of the people of one successful parse are pairwise distinct.
C15_DistinctIds ==
    (Parsed /\ probe.result.success) =>
        \A i, j \in 1..Len(probe.result.people) :
            i # j => probe.result.people[i].id # probe.result.people[j].id

\* C16: a name line, a parents line and an empty third line are parsed into a
\* person with no siblings.
C16_EmptySiblingsLine ==
    (Parsed /\ Len(probe.lines) = 3 /\ Solid(SubSeq(probe.lines, 1, 2)) = SubSeq(probe.lines, 1, 2)
            /\ probe.lines[3] = 1) =>
        /\ probe.result.success
        /\ Len(probe.result.people) = 1
        /\ probe.result.people[1].siblings = <<>>

\* C17: parse succeeds iff the number of non-empty lines is a positive
\* multiple of 3; with none it returns the empty-input failure without
\* remainder lines, otherwise the not-a-multiple-of-three failure.
C17_TotalOutcome ==
    LET c == Len(Solid(probe.lines))
    IN  Parsed =>
            /\ probe.result.success <=> (c > 0 /\ c % 3 = 0)
            /\ c = 0 => /\ probe.result.message.kind = "empty"
                        /\ probe.result.remainderLines = <<>>
            /\ c % 3 # 0 => /\ probe.result.message.kind \in {"one line", "lines"}
                            /\ probe.result.message.count = c
                            /\ probe.result.remainderLines # <<>>

\* a text of empty and whitespace-only lines
C17_Witness ==
    /\ Parsed
    /\ Len(probe.lines) = 3
    /\ 2 \in Range(probe.lines)
    /\ Solid(probe.lines) = <<>>
    /\ probe.result.message.kind = "empty"

\* a parse outcome without the generated ids
Outcome(r) ==
    [r EXCEPT !.people = [i \in 1..Len(r.people) |-> [r.people[i] EXCEPT !.id = "any"]]]

\* C18: inserting or deleting a blank or whitespace-only line anywhere leaves
\* the parse outcome unchanged, the generated ids aside.
C18_BlankLinesIgnored ==
    (probe.kind = "parse" /\ probe.op = "edited") =>
        Outcome(probe.before) = Outcome(probe.result)

\* a whitespace-only line inserted inside the second block of two
C18_Witness ==
    /\ probe.kind = "parse" /\ probe.op = "edited"
    /\ probe.before.success
    /\ probe.lines = <<3, 4, 3, 3, 2, 4, 4>>
    /\ probe.result.success
    /\ Len(probe.result.people) = 2

(***************************************************************************)
(* utils/training.ts: generateTrueFalse and generateMultipleChoice with    *)
(* their checkers.  A person is the record the parser builds; the          *)
(* Math.random() draws of a generator are its extra parameters or the      *)
(* members of the set it returns.  parents.join(', ') stays the list, so   *)
(* an option is a list of words; a name is a one-word list.                *)
(***************************************************************************)
\* the option that pads a question, the em dash
Placeholder == <<"dash">>

\* People as parsePeopleText returns them (a third line cannot be entered
\* empty, but the generators handle a person without siblings).  The second
\* has the parents of the first in the other order, the fourth was entered
\* with dashes, the fifth has the name of the first.
Family ==
    << [id |-> "p1", name |-> "A", parents |-> <<"X", "Y">>, siblings |-> <<"B">>],
       [id |-> "p2", name |-> "B", parents |-> <<"Y", "X">>, siblings |-> <<"A">>],
       [id |-> "p3", name |-> "C", parents |-> <<"V", "W">>, siblings |-> <<>>],
       [id |-> "p4", name |-> "dash", parents |-> <<"dash">>, siblings |-> <<"dash">>],
       [id |-> "p5", name |-> "A", parents |-> <<"X">>, siblings |-> <<"B", "C">>] >>

\* the rosters: every non-empty selection of Family, in its order
RECURSIVE Selection(_, _)
Selection(S, i) ==
    IF i > Len(Family) THEN <<>>
    ELSE (IF i \in S THEN <<Family[i]>> ELSE <<>>) \o Selection(S, i + 1)

FamilyRosters == {Selection(S, 1) : S \in (SUBSET (1..Len(Family))) \ {{}}}

\* the sequences of k different members of S
Injections(S, k) == {f \in [1..k -> S] : \A i, j \in 1..k : i # j => f[i] # f[j]}

\* shuffle(array): the orders Fisher-Yates can produce
shuffle(array) ==
    {[i \in 1..Len(array) |-> array[f[i]]] : f \in Injections(1..Len(array), Len(array))}

\* pickRandom(array, count, excludeIndices)
pickRandom(array, count, excludeIndices) ==
    LET indices == {i \in 1..Len(array) : i \notin excludeIndices}
        n == Min(count, Cardinality(indices))
    IN  {[i \in 1..n |-> array[f[i]]] : f \in Injections(indices, n)}

\* otherPeople.flatMap((p) => p.parents): the values of a field of others
RECURSIVE flatMap(_, _)
flatMap(others, field) ==
    IF others = <<>> THEN <<>>
    ELSE (IF field = "parents" THEN Head(others).parents ELSE Head(others).siblings)
             \o flatMap(Tail(others), field)

\* a variant that keeps the values the person has too
foreignValues_Unfiltered(own, others, field) == flatMap(others, field)

\* .filter((name) => !person.parents.includes(name))
foreignValues(own, others, field) ==
    SelectSeq(flatMap(others, field), LAMBDA name : name \notin Range(own))

NoSiblingsValue == NoSiblings[1]

TrueFalse(person, value, relation, isTrue) ==
    [person |-> person, claimedValue |-> value, relation |-> relation, isTrue |-> isTrue]

\* pickOne over a list, as a true statement
TrueStatements(person, list, relation) ==
    {TrueFalse(person, v, relation, TRUE) : v \in Range(list)}

NoSiblingsStatement(person) ==
    {TrueFalse(person, NoSiblingsValue, "siblings", TRUE)}

\* generateTrueFalse(person, allPeople) when Math.random() > 0.4 is isTrue and
\* Math.random() > 0.5 is askParents: the questions pickOne can lead to
generateTrueFalse(person, allPeople, isTrue, askParents) ==
    LET relation == IF askParents THEN "parents" ELSE "siblings"
        otherPeople == SelectSeq(allPeople, LAMBDA p : p.id # person.id)
        otherParents == foreignValues(person.parents, otherPeople, "parents")
        otherSiblings == foreignValues(person.siblings, otherPeople, "siblings")
    IN  IF isTrue
        THEN IF askParents THEN TrueStatements(person, person.parents, relation)
             ELSE IF Len(person.siblings) = 0 THEN NoSiblingsStatement(person)
             ELSE TrueStatements(person, person.siblings, relation)
        ELSE IF Len(otherPeople) = 0
             THEN TrueStatements(person, person.parents, "parents")
        ELSE IF askParents
             THEN IF Len(otherParents) = 0
                  THEN TrueStatements(person, person.parents, relation)
                  ELSE {TrueFalse(person, v, relation, FALSE) : v \in Range(otherParents)}
        ELSE IF Len(otherSiblings) = 0
             THEN IF Len(person.siblings) > 0
                  THEN TrueStatements(person, person.siblings, relation)
                  ELSE NoSiblingsStatement(person)
             ELSE {TrueFalse(person, v, relation, FALSE) : v \in Range(otherSiblings)}

checkTrueFalse(q, answer) == answer = q.isTrue

\* the answer string of a person in a direction of generateMultipleChoice
OptionOf(p, relation) ==
    IF relation = "parents" THEN p.parents
    ELSE IF relation = "siblings"
         THEN (IF Len(p.siblings) > 0 THEN p.siblings ELSE NoSiblings)
    ELSE <<p.name>>

\* [...new Set(values)]: first occurrences, in order
RECURSIVE Unique(_)
Unique(values) ==
    IF values = <<>> THEN <<>>
    ELSE LET front == Unique(SubSeq(values, 1, Len(values) - 1))
             last == values[Len(values)]
         IN  IF last \in Range(front) THEN front ELSE Append(front, last)

\* array.indexOf(value), counted from 1; 0 when absent
IndexOf(array, value) ==
    LET hits == {i \in 1..Len(array) : array[i] = value}
    IN  IF hits = {} THEN 0 ELSE CHOOSE i \in hits : \A j \in hits : i <= j

Directions == {"parents", "siblings", "name"}

\* generateMultipleChoice(person, allPeople) in the direction the first
\* Math.random() selects: the questions pickRandom and shuffle can lead to
generateMultipleChoice(person, allPeople, relation) ==
    LET ids == [i \in 1..Len(allPeople) |-> allPeople[i].id]
        personIndex == IndexOf(ids, person.id)
        correct == OptionOf(person, relation)
    IN  UNION {
          LET values == [i \in 1..Len(sample) |-> OptionOf(sample[i], relation)]
              distractors ==
                  SelectSeq(values, LAMBDA d : d # correct /\ Len(d) > 0)
              unique == Unique(distractors)
              uniqueDistractors == SubSeq(unique, 1, Min(3, Len(unique)))
              padded == uniqueDistractors
                            \o [i \in 1..(3 - Len(uniqueDistractors)) |-> Placeholder]
          IN  {[person |-> person, relation |-> relation, options |-> options,
                correctIndex |-> IndexOf(options, correct)] :
                 options \in shuffle(<<correct>> \o padded)}
          : sample \in pickRandom(allPeople, 5, {personIndex})}

checkMultipleChoice(q, selectedIndex) == selectedIndex = q.correctIndex

QuestionInit ==
    /\ Idle(<<"p1", "p2", "p3">>)
    /\ \E roster \in FamilyRosters : \E i \in 1..Len(roster) :
          probe = [kind |-> "question", people |-> roster, person |-> roster[i],
                   op |-> "none", drawnTrue |-> TRUE, q |-> <<>>,
                   answer |-> 0, accepted |-> FALSE]

\* a trueFalse question is generated
AskTrueFalse ==
    /\ probe.kind = "question" /\ probe.op = "none"
    /\ \E isTrue \in BOOLEAN, askParents \in BOOLEAN :
          \E q \in generateTrueFalse(probe.person, probe.people, isTrue, askParents) :
              probe' = [probe EXCEPT !.op = "trueFalse", !.drawnTrue = isTrue, !.q = q]
    /\ UNCHANGED screen

\* the user answers it with true (1) or false (2)
AnswerTrueFalse ==
    /\ probe.kind = "question" /\ probe.op = "trueFalse"
    /\ probe.answer = 0
    /\ \E answer \in BOOLEAN :
          probe' = [probe EXCEPT !.answer = IF answer THEN 1 ELSE 2,
                                 !.accepted = checkTrueFalse(probe.q, answer)]
    /\ UNCHANGED screen

\* a multipleChoice question is generated
AskMultipleChoice ==
    /\ probe.kind = "question" /\ probe.op = "none"
    /\ \E relation \in Directions :
          \E q \in generateMultipleChoice(probe.person, probe.people, relation) :
              probe' = [probe EXCEPT !.op = "multipleChoice", !.q = q]
    /\ UNCHANGED screen

\* the user picks one of its options
AnswerMultipleChoice ==
    /\ probe.kind = "question" /\ probe.op = "multipleChoice"
    /\ probe.answer = 0
    /\ \E index \in 1..Len(probe.q.options) :
          probe' = [probe EXCEPT !.answer = index,
                                 !.accepted = checkMultipleChoice(probe.q, index)]
    /\ UNCHANGED screen

QuestionNext ==
    AskTrueFalse \/ AnswerTrueFalse \/ AskMultipleChoice \/ AnswerMultipleChoice

SpecQuestion == QuestionInit /\ [][QuestionNext]_vars

\* the list of the person a question is about, in the question's relation
ListOf(q) == IF q.relation = "parents" THEN q.person.parents ELSE q.person.siblings

\* the statement of a trueFalse question is true of its person
Holds(q) ==
    \/ q.claimedValue \in Range(ListOf(q))
    \/ /\ q.claimedValue = NoSiblingsValue
       /\ q.relation = "siblings"
       /\ q.person.siblings = <<>>

\* somebody else in the roster has a value the person does not have
ForeignValueExists(person, roster, relation) ==
    \E i \in 1..Len(roster) :
        /\ roster[i].id # person.id
        /\ LET theirs == IF relation = "parents" THEN roster[i].parents
                         ELSE roster[i].siblings
               own == IF relation = "parents" THEN person.parents ELSE person.siblings
           IN  Range(theirs) \ Range(own) # {}

\* C19: a trueFalse question is labelled true iff its statement holds of the
\* person, so a false one claims a value outside the person's list; without a
\* foreign value a true statement is generated, and a question always is; the
\* checker accepts the answer that says whether the statement holds.
C19_LabelMatchesStatement ==
    /\ (probe.kind = "question" /\ probe.op = "trueFalse") =>
          /\ probe.q.isTrue <=> Holds(probe.q)
          /\ ~probe.q.isTrue => probe.q.claimedValue \notin Range(ListOf(probe.q))
          /\ ~ForeignValueExists(probe.person, probe.people, probe.q.relation)
                => probe.q.isTrue
          /\ probe.answer # 0 => (probe.accepted <=> ((probe.answer = 1) <=> Holds(probe.q)))
    /\ (probe.kind = "question" /\ probe.op = "none") =>
          \A isTrue \in BOOLEAN, askParents \in BOOLEAN :
              generateTrueFalse(probe.person, probe.people, isTrue, askParents) # {}

\* a false statement was drawn about the parents of somebody whose only
\* companion has the same parents: a true statement came out, and the answer
\* "false" was rejected
C19_Witness ==
    /\ probe.kind = "question" /\ probe.op = "trueFalse"
    /\ Len(probe.people) = 2
    /\ ~probe.drawnTrue
    /\ probe.q.relation = "parents"
    /\ probe.q.isTrue
    /\ probe.answer = 2
    /\ ~probe.accepted

\* the answer string of the person a multipleChoice question is about
CorrectOf(q) == OptionOf(q.person, q.relation)

\* C20: a multipleChoice question has 4 options, options[correctIndex] is the
\* person's answer, no option other than a placeholder equals the answer or
\* another distractor, and the checker accepts an index iff the option there
\* is the answer.
C20_OptionsWellFormed ==
    (probe.kind = "question" /\ probe.op = "multipleChoice") =>
        LET q == probe.q
        IN  /\ Len(q.options) = 4
            /\ q.correctIndex \in 1..4
            /\ q.options[q.correctIndex] = CorrectOf(q)
            /\ \A i \in 1..4 : (i # q.correctIndex /\ q.options[i] # Placeholder) =>
                  /\ q.options[i] # CorrectOf(q)
                  /\ \A j \in 1..4 : (j # i /\ j # q.correctIndex)
                                        => q.options[j] # q.options[i]
            /\ \A i \in 1..4 :
                  checkMultipleChoice(q, i) <=> (q.options[i] = CorrectOf(q))

(***************************************************************************)
(* utils/parser.ts: compareArraysUnordered and compareNames.  A string is  *)
(* a sequence of characters; a call returns its result together with the   *)
(* arrays as the call leaves them.                                         *)
(***************************************************************************)
\* elements of a compared array, characters of a compared name
MaxArray == 3
MaxName == 4

\* the characters of the compared strings in the order of their code units
Alphabet == <<" ", "a", "n">>
CodeOf(ch) == CHOOSE i \in 1..Len(Alphabet) : Alphabet[i] = ch

\* s sorts before t, or is t: the code-unit order Array.prototype.sort uses
\* on strings
RECURSIVE SortsBefore(_, _)
SortsBefore(s, t) ==
    IF s = <<>> THEN TRUE
    ELSE IF t = <<>> THEN FALSE
    ELSE IF Head(s) # Head(t) THEN CodeOf(Head(s)) < CodeOf(Head(t))
    ELSE SortsBefore(Tail(s), Tail(t))

\* [...array].sort()
RECURSIVE sort(_)
sort(array) ==
    IF array = <<>> THEN <<>>
    ELSE LET rest == sort(Tail(array))
             x == Head(array)
             k == Cardinality({i \in 1..Len(rest) : ~SortsBefore(x, rest[i])})
         IN  SubSeq(rest, 1, k) \o <<x>> \o SubSeq(rest, k + 1, Len(rest))

\* a variant that compares the arrays as they are
compareArraysUnordered_AsSets(a, b) ==
    [equal |-> Len(a) = Len(b) /\ Range(a) = Range(b), a |-> a, b |-> b]

\* compareArraysUnordered(a, b): the result, and a and b after the call
compareArraysUnordered(a, b) ==
    LET sortedA == sort(a)
        sortedB == sort(b)
    IN  [equal |-> IF Len(a) # Len(b) THEN FALSE
                   ELSE \A i \in 1..Len(sortedA) : sortedA[i] = sortedB[i],
         a |-> a, b |-> b]

\* s.replace(/\s+/g, ' ')
RECURSIVE collapse(_)
collapse(str) ==
    IF str = <<>> THEN <<>>
    ELSE IF Head(str) \in Whitespace
         THEN LET solid == {i \in 1..Len(str) : str[i] \notin Whitespace}
                  next == IF solid = {} THEN Len(str) + 1
                          ELSE CHOOSE i \in solid : \A j \in solid : i <= j
              IN  <<" ">> \o collapse(SubSeq(str, next, Len(str)))
    ELSE <<Head(str)>> \o collapse(Tail(str))

\* a variant that only trims
compareNames_TrimOnly(userInput, correct) == trim(userInput) = trim(correct)

compareNames(userInput, correct) == collapse(trim(userInput)) = collapse(trim(correct))

WordSet == {<<"a">>, <<"n">>, <<"a", "n">>}
ArrayInputs == UNION {[1..n -> WordSet] : n \in 0..MaxArray}
NameInputs == UNION {[1..n -> Range(Alphabet)] : n \in 0..MaxName}

CompareInit ==
    /\ Idle(<<"p1", "p2", "p3">>)
    /\ \/ \E a \in ArrayInputs, b \in ArrayInputs :
             probe = [kind |-> "arrays", a |-> a, b |-> b, op |-> "none",
                      forward |-> FALSE, backward |-> FALSE, aAfter |-> a, bAfter |-> b]
       \/ \E x \in NameInputs, y \in NameInputs :
             probe = [kind |-> "names", x |-> x, y |-> y, op |-> "none",
                      before |-> FALSE, result |-> FALSE]

\* compareArraysUnordered(a, b) and compareArraysUnordered(b, a)
CompareArrays ==
    /\ probe.kind = "arrays" /\ probe.op = "none"
    /\ LET r == compareArraysUnordered(probe.a, probe.b)
       IN  probe' = [probe EXCEPT !.op = "compared",
                         !.forward = r.equal,
                         !.backward = compareArraysUnordered(probe.b, probe.a).equal,
                         !.aAfter = r.a, !.bAfter = r.b]
    /\ UNCHANGED screen

\* compareNames(x, y)
CompareNames ==
    /\ probe.kind = "names" /\ probe.op = "none"
    /\ probe' = [probe EXCEPT !.op = "compared", !.result = compareNames(probe.x, probe.y)]
    /\ UNCHANGED screen

\* str with a space added in front, at the end or next to a space, or with
\* such a space removed: the strings that differ from str by one space of
\* leading, trailing or repeated whitespace
SpaceEdits(str) ==
    {SubSeq(str, 1, i) \o <<" ">> \o SubSeq(str, i + 1, Len(str)) :
        i \in {j \in 0..Len(str) : \/ j = 0 \/ j = Len(str)
                                   \/ str[j] = " " \/ str[j + 1] = " "}}
    \cup
    {SubSeq(str, 1, i - 1) \o SubSeq(str, i + 1, Len(str)) :
        i \in {j \in 1..Len(str) :
                 /\ str[j] = " "
                 /\ \/ j = 1 \/ j = Len(str)
                    \/ str[j - 1] = " " \/ str[j + 1] = " "}}

\* compareNames before and after such an edit of either argument
EditWhitespace ==
    /\ probe.kind = "names" /\ probe.op = "none"
    /\ \/ \E x \in SpaceEdits(probe.x) :
             probe' = [probe EXCEPT !.op = "edited", !.x = x,
                           !.before = compareNames(probe.x, probe.y),
                           !.result = compareNames(x, probe.y)]
       \/ \E y \in SpaceEdits(probe.y) :
             probe' = [probe EXCEPT !.op = "edited", !.y = y,
                           !.before = compareNames(probe.x, probe.y),
                           !.result = compareNames(probe.x, y)]
    /\ UNCHANGED screen

CompareNext == CompareArrays \/ CompareNames \/ EditWhitespace

SpecCompare == CompareInit /\ [][CompareNext]_vars

\* how often w occurs in array
Occurrences(array, w) == Cardinality({i \in 1..Len(array) : array[i] = w})

\* C24: compareArraysUnordered(a, b) is true iff a and b hold the same
\* elements with the same multiplicities; it is symmetric, false for different
\* lengths, true for two empty lists, and leaves a and b as they were.
C24_MultisetEquality ==
    (probe.kind = "arrays" /\ probe.op = "compared") =>
        /\ probe.forward <=> \A w \in WordSet : Occurrences(probe.a, w) = Occurrences(probe.b, w)
        /\ probe.forward = probe.backward
        /\ Len(probe.a) # Len(probe.b) => ~probe.forward
        /\ (probe.a = <<>> /\ probe.b = <<>>) => probe.forward
        /\ probe.aAfter = probe.a /\ probe.bAfter = probe.b

\* two arrays of three with a repeated element, equal but in another order
C24_Witness ==
    /\ probe.kind = "arrays" /\ probe.op = "compared"
    /\ Len(probe.a) = 3
    /\ probe.a # probe.b
    /\ Occurrences(probe.a, <<"a", "n">>) = 2
    /\ probe.forward

\* C25: compareNames is true iff the words of its arguments are the same, in
\* order; adding or removing leading, trailing or repeated whitespace in
\* either argument does not change it.
C25_WhitespaceInsensitive ==
    /\ (probe.kind = "names" /\ probe.op = "compared") =>
          (probe.result <=> splitWhitespace(probe.x) = splitWhitespace(probe.y))
    /\ (probe.kind = "names" /\ probe.op = "edited") => probe.result = probe.before

\* an internal space doubled in a name that equals the other
C25_Witness ==
    /\ probe.kind = "names" /\ probe.op = "edited"
    /\ probe.x = <<"a", " ", " ", "n">>
    /\ probe.y = <<" ", "a", " ", "n">>
    /\ probe.result

\* ------------------------------------------------------------------------
\* utils/training.ts: checkFreeRecall
\* ------------------------------------------------------------------------

MaxAnswer == 3

\* 'אין' and 'אין אחים', written in the letters of Alphabet
NoSiblingsWord == <<"n">>
NoSiblingsPhrase == <<"n", " ", "a">>

RECURSIVE join(_)
\* words.join(' ')
join(words) ==
    IF words = <<>> THEN <<>>
    ELSE IF Len(words) = 1 THEN words[1]
    ELSE words[1] \o <<" ">> \o join(Tail(words))

checkFreeRecall_SiblingsRequired(person, parentsAnswer, siblingsAnswer) ==
    LET parentsCorrect == compareArraysUnordered(splitWhitespace(trim(parentsAnswer)), person.parents).equal
        siblingsCorrect == compareArraysUnordered(splitWhitespace(trim(siblingsAnswer)), person.siblings).equal
    IN  [parentsCorrect |-> parentsCorrect,
         siblingsCorrect |-> siblingsCorrect,
         allCorrect |-> parentsCorrect /\ siblingsCorrect,
         correctParents |-> join(person.parents),
         correctSiblings |-> IF Len(person.siblings) > 0 THEN join(person.siblings)
                             ELSE NoSiblingsPhrase]

checkFreeRecall(person, parentsAnswer, siblingsAnswer) ==
    LET userParents == splitWhitespace(trim(parentsAnswer))
        parentsCorrect == compareArraysUnordered(userParents, person.parents).equal
        trimmed == trim(siblingsAnswer)
        siblingsCorrect ==
            IF Len(person.siblings) = 0
            THEN trimmed = <<>> \/ trimmed = NoSiblingsWord \/ trimmed = NoSiblingsPhrase
            ELSE compareArraysUnordered(splitWhitespace(trim(siblingsAnswer)), person.siblings).equal
    IN  [parentsCorrect |-> parentsCorrect,
         siblingsCorrect |-> siblingsCorrect,
         allCorrect |-> parentsCorrect /\ siblingsCorrect,
         correctParents |-> join(person.parents),
         correctSiblings |-> IF Len(person.siblings) > 0 THEN join(person.siblings)
                             ELSE NoSiblingsPhrase]

\* the people asked about: two parents and a sibling whose name starts like a
\* parent's, no siblings, a sibling list that reads like 'אין אחים', twice
\* the same parent name
RecallPeople ==
    { [parents |-> <<<<"a">>, <<"n">>>>, siblings |-> <<<<"a", "n">>>>],
      [parents |-> <<<<"a", "n">>, <<"a">>>>, siblings |-> <<>>],
      [parents |-> <<<<"n">>>>, siblings |-> <<<<"n">>, <<"a">>>>],
      [parents |-> <<<<"a">>, <<"a">>>>, siblings |-> <<<<"n">>, <<"a">>, <<"n">>>>] }

AnswerInputs == UNION {[1..n -> Range(Alphabet)] : n \in 0..MaxAnswer}

\* the orders in which words can be listed
Orders(words) ==
    {[i \in 1..Len(words) |-> words[f[i]]] :
        f \in {g \in [1..Len(words) -> 1..Len(words)] : Range(g) = 1..Len(words)}}

RecallInit ==
    /\ Idle(<<"p1", "p2", "p3">>)
    /\ \E person \in RecallPeople, pa \in AnswerInputs, sa \in AnswerInputs :
          probe = [kind |-> "recall", person |-> person, parentsAnswer |-> pa,
                   siblingsAnswer |-> sa, op |-> "none",
                   result |-> checkFreeRecall(person, <<>>, <<>>)]

\* handleSubmit with the two typed answers
CheckAnswer ==
    /\ probe.kind = "recall" /\ probe.op = "none"
    /\ probe' = [probe EXCEPT !.op = "typed",
                     !.result = checkFreeRecall(probe.person, probe.parentsAnswer,
                                                probe.siblingsAnswer)]
    /\ UNCHANGED screen

\* the answers list the person's parents and siblings, in some order, with
\* the typed text around them when it is blank
CheckListing ==
    /\ probe.kind = "recall" /\ probe.op = "none"
    /\ splitWhitespace(probe.parentsAnswer) = <<>>
    /\ splitWhitespace(probe.siblingsAnswer) = <<>>
    /\ \E ps \in Orders(probe.person.parents), ss \in Orders(probe.person.siblings) :
          LET pa == probe.parentsAnswer \o join(ps) \o probe.siblingsAnswer
              sa == probe.siblingsAnswer \o join(ss) \o probe.parentsAnswer
          IN  probe' = [probe EXCEPT !.op = "listed", !.parentsAnswer = pa,
                            !.siblingsAnswer = sa,
                            !.result = checkFreeRecall(probe.person, pa, sa)]
    /\ UNCHANGED screen

\* the strings shown as the correct answer are typed in as the answer
CheckCanonical ==
    /\ probe.kind = "recall" /\ probe.op = "none"
    /\ LET shown == checkFreeRecall(probe.person, probe.parentsAnswer, probe.siblingsAnswer)
       IN  probe' = [probe EXCEPT !.op = "canonical",
                         !.parentsAnswer = shown.correctParents,
                         !.siblingsAnswer = shown.correctSiblings,
                         !.result = checkFreeRecall(probe.person, shown.correctParents,
                                                    shown.correctSiblings)]
    /\ UNCHANGED screen

RecallNext == CheckAnswer \/ CheckListing \/ CheckCanonical

SpecRecall == RecallInit /\ [][RecallNext]_vars

\* the words in text and in list are the same, with the same multiplicities
SameWords(text, list) ==
    LET typed == splitWhitespace(text)
    IN  \A w \in Range(typed) \cup Range(list) : Occurrences(typed, w) = Occurrences(list, w)

\* C21: checkFreeRecall judges allCorrect iff both parts are correct; the
\* parents part is correct iff the answer holds exactly the parents' names in
\* any order, and so is the siblings part of a person with siblings; an empty
\* siblings answer is accepted for a person without siblings; a listing in any
\* order and the returned canonical strings are judged all-correct.
C21_FreeRecallJudgement ==
    (probe.kind = "recall" /\ probe.op # "none") =>
        LET r == probe.result
        IN  /\ r.allCorrect <=> (r.parentsCorrect /\ r.siblingsCorrect)
            /\ r.parentsCorrect <=> SameWords(probe.parentsAnswer, probe.person.parents)
            /\ probe.person.siblings # <<>> =>
                  (r.siblingsCorrect <=> SameWords(probe.siblingsAnswer, probe.person.siblings))
            /\ (probe.person.siblings = <<>> /\ splitWhitespace(probe.siblingsAnswer) = <<>>) =>
                  r.siblingsCorrect
            /\ probe.op \in {"listed", "canonical"} => r.allCorrect

\* parents and three siblings listed in another order than the stored one
C21_Witness ==
    /\ probe.kind = "recall" /\ probe.op = "listed"
    /\ Len(probe.person.siblings) = 3
    /\ probe.siblingsAnswer # join(probe.person.siblings)
    /\ probe.result.allCorrect

\* ------------------------------------------------------------------------
\* SpeedRoundMode: countdown, answers and the delayed report of the result
\* ------------------------------------------------------------------------

MaxQuestions == 3

timeLimitMs == 8000
TickMs == 50

\* Date.now() - startTimeRef.current at the moments an event is handled
TimePoints == {0, TickMs, timeLimitMs - TickMs, timeLimitMs, timeLimitMs + TickMs}

NoQuestion == [type |-> "none"]
NoResult22 == [kind |-> "none"]

\* generateSpeedRound(person, allPeople): useTF is the Math.random() draw, key
\* what the inner generator made the right answer (isTrue / correctIndex)
generateSpeedRound(person, useTF, key) ==
    [type |-> "speedRound",
     inner |-> IF useTF
               THEN [type |-> "trueFalse", person |-> person, isTrue |-> key = 0]
               ELSE [type |-> "multipleChoice", person |-> person, correctIndex |-> key],
     timeLimitMs |-> timeLimitMs]

\* onAnswer(result) as seen from the mode: the result is handed over
onAnswer(s, result) ==
    [s EXCEPT !.produced[result.question] = @ + 1, !.lastResult = result]

\* nextQuestion of the render whose lastPersonId is last; it sets state only
\* while the component is mounted, which it is until the last question of the
\* session was reported
nextQuestion(s, last, person, useTF, key) ==
    IF s.questionNo >= MaxQuestions
    THEN [s EXCEPT !.question = NoQuestion, !.interval = FALSE, !.mounted = FALSE]
    ELSE [s EXCEPT !.lastPersonId = person,
                   !.question = generateSpeedRound(person, useTF, key),
                   !.timeLeft = timeLimitMs,
                   !.isAnswered = FALSE,
                   !.lastCorrect = "null",
                   !.elapsed = 0,
                   !.questionNo = @ + 1,
                   !.interval = TRUE]

\* the draws of one nextQuestion call
NextQuestions(s, last) ==
    {nextQuestion(s, last, person, useTF, key) :
        person \in selectNextPerson(s.people, s.cards, last),
        useTF \in BOOLEAN, key \in 0..1}

\* what a handler does with its result: report it after the feedback delay, or
\* report it and ask the next question at once
Report(s, result) ==
    IF s.showInstantFeedback
    THEN {[s EXCEPT !.pending = Append(@, [result |-> result, last |-> s.lastPersonId])]}
    ELSE NextQuestions(onAnswer(s, result), s.lastPersonId)

\* handleTimeout of the render in which the countdown effect ran (question
\* set, isAnswered false)
handleTimeout(s) ==
    LET result == [kind |-> "timeout", question |-> s.questionNo,
                   personId |-> s.question.inner.person,
                   correct |-> FALSE, timeMs |-> s.question.timeLimitMs]
    IN  Report([s EXCEPT !.isAnswered = TRUE, !.lastCorrect = "false"], result)

\* the part handleTrueFalseAnswer and handleMCAnswer share; the render that
\* follows the click runs the cleanup of the countdown effect
answered(s, correct) ==
    LET result == [kind |-> "answer", question |-> s.questionNo,
                   personId |-> s.question.inner.person,
                   correct |-> correct, timeMs |-> s.elapsed]
    IN  Report([s EXCEPT !.isAnswered = TRUE, !.interval = FALSE,
                         !.lastCorrect = IF correct THEN "true" ELSE "false"], result)

handleTrueFalseAnswer(s, answer) == answered(s, checkTrueFalse(s.question.inner, answer))

handleMCAnswer(s, index) == answered(s, checkMultipleChoice(s.question.inner, index))

SpeedPeople == {<<"p1">>, <<"p1", "p2">>, <<"p1", "p2", "p3">>}

SpeedInit ==
    /\ Idle(<<"p1", "p2", "p3">>)
    /\ \E ppl \in SpeedPeople, fb \in BOOLEAN :
          probe = [kind |-> "speed", people |-> ppl,
                   cards |-> initLeitnerCards(ppl, INITIAL_STATS.leitnerCards).cards,
                   showInstantFeedback |-> fb, mounted |-> TRUE,
                   question |-> NoQuestion, timeLeft |-> 0, isAnswered |-> FALSE,
                   lastCorrect |-> "null", lastPersonId |-> NoPerson,
                   interval |-> FALSE, elapsed |-> 0, questionNo |-> 0,
                   pending |-> <<>>,
                   produced |-> [q \in 1..MaxQuestions |-> 0],
                   lastResult |-> NoResult22]

\* useEffect: if (!question) nextQuestion()
FirstQuestion ==
    /\ probe.kind = "speed" /\ probe.mounted
    /\ probe.question = NoQuestion
    /\ probe' \in NextQuestions(probe, probe.lastPersonId)
    /\ UNCHANGED screen

\* time passes while a question waits for its answer
Pass ==
    /\ probe.kind = "speed" /\ probe.mounted
    /\ probe.question # NoQuestion /\ ~probe.isAnswered
    /\ \E t \in TimePoints :
          /\ t > probe.elapsed
          /\ probe' = [probe EXCEPT !.elapsed = t]
    /\ UNCHANGED screen

\* the setInterval callback of the countdown effect
Tick ==
    /\ probe.kind = "speed" /\ probe.mounted
    /\ probe.interval
    /\ probe.elapsed >= TickMs
    /\ LET remaining == Max(0, probe.question.timeLimitMs - probe.elapsed)
           s == [probe EXCEPT !.timeLeft = remaining]
       IN  IF remaining <= 0
           THEN probe' \in handleTimeout([s EXCEPT !.interval = FALSE])
           ELSE probe' = s
    /\ UNCHANGED screen

\* a click or key press on an answer of a true/false question
ClickTrueFalse ==
    /\ probe.kind = "speed" /\ probe.mounted
    /\ probe.question # NoQuestion /\ ~probe.isAnswered
    /\ probe.question.inner.type = "trueFalse"
    /\ \E answer \in BOOLEAN : probe' \in handleTrueFalseAnswer(probe, answer)
    /\ UNCHANGED screen

\* a click or key press on an option of a multiple-choice question
ClickOption ==
    /\ probe.kind = "speed" /\ probe.mounted
    /\ probe.question # NoQuestion /\ ~probe.isAnswered
    /\ probe.question.inner.type = "multipleChoice"
    /\ \E index \in 0..1 : probe' \in handleMCAnswer(probe, index)
    /\ UNCHANGED screen

\* the setTimeout callback of a handler: onAnswer(result); nextQuestion()
FeedbackCallback ==
    /\ probe.kind = "speed"
    /\ probe.pending # <<>>
    /\ LET t == Head(probe.pending)
       IN  probe' \in NextQuestions(onAnswer([probe EXCEPT !.pending = Tail(@)], t.result),
                                    t.last)
    /\ UNCHANGED screen

SpeedNext ==
    FirstQuestion \/ Pass \/ Tick \/ ClickTrueFalse \/ ClickOption \/ FeedbackCallback

SpecSpeed == SpeedInit /\ [][SpeedNext]_vars

\* at most one result per question, and one for every question left behind
OneResultEach ==
    probe.kind = "speed" =>
        /\ \A q \in 1..MaxQuestions : probe.produced[q] <= 1
        /\ \A q \in 1..MaxQuestions :
              (q < probe.questionNo \/ ~probe.mounted) => probe.produced[q] = 1

\* C22: every speed-round question gets exactly one result, and a result is
\* either the user's answer given before the 8000 ms have elapsed or the
\* timeout result with correct = false and timeMs = 8000.
C22_OneResultInTime ==
    /\ OneResultEach
    /\ (probe.kind = "speed" /\ probe.lastResult # NoResult22) =>
          \/ /\ probe.lastResult.kind = "answer"
             /\ probe.lastResult.timeMs < timeLimitMs
          \/ /\ probe.lastResult.kind = "timeout"
             /\ ~probe.lastResult.correct
             /\ probe.lastResult.timeMs = timeLimitMs

\* ------------------------------------------------------------------------
\* hooks/useLocalStorage.ts and the readers of the loaded OverallStats
\* ------------------------------------------------------------------------

StatsFields == {"totalSessions", "totalQuestions", "totalCorrect", "personStats",
                "leitnerCards"}
CounterFields == {"totalSessions", "totalQuestions", "totalCorrect"}

\* JavaScript values: null, a number, or an object that has some of the fields
\* of OverallStats (a field outside `has` reads as undefined, a counter in
\* `nan` is NaN)
JsNull == [tag |-> "null"]
JsNumber == [tag |-> "number"]
JsObject(has, base) ==
    [tag |-> "object", has |-> has, nan |-> {},
     stats |-> [f \in StatsFields |-> IF f \in has THEN base[f] ELSE INITIAL_STATS[f]]]

JsValues ==
    {JsNull, JsNumber} \cup {JsObject(has, base) : has \in SUBSET StatsFields,
                                                    base \in OverallInputs}

\* the text under the key: none, or a text that is or is not JSON
Absent == [kind |-> "absent"]
StoredItems ==
    {Absent, [kind |-> "text", empty |-> TRUE, json |-> FALSE, value |-> JsNull],
     [kind |-> "text", empty |-> FALSE, json |-> FALSE, value |-> JsNull]}
    \cup {[kind |-> "text", empty |-> FALSE, json |-> TRUE, value |-> v] : v \in JsValues}

JSONparse(item) ==
    IF item.json THEN [threw |-> FALSE, value |-> item.value]
    ELSE [threw |-> TRUE, value |-> JsNull]

JSONstringify(v) == [kind |-> "text", empty |-> FALSE, json |-> TRUE, value |-> v]

\* the initializer of useState in useLocalStorage:
\* item ? JSON.parse(item) : initialValue, initialValue when that throws
useLocalStorage(item, initialValue) ==
    IF item = Absent \/ item.empty THEN initialValue
    ELSE LET parsed == JSONparse(item)
         IN  IF parsed.threw THEN initialValue ELSE parsed.value

\* v.field: throws on null, undefined when the field is not there
ReadThrows(v) == v.tag = "null"
Undefined(v, f) == v.tag # "object" \/ f \notin v.has

\* StatsScreen: overallStats.totalQuestions ..., Object.values(overallStats.personStats)
StatsScreenThrows(v) == ReadThrows(v) \/ Undefined(v, "personStats")

\* startSession: initLeitnerCards(people, overallStats.leitnerCards ?? {})
startSessionThrows(v) == ReadThrows(v)

\* finishSession of a session with one right answer about the first person
finishSessionOn(v, ppl) ==
    LET base == IF v.tag = "object" THEN v.stats ELSE INITIAL_STATS
        cards == initLeitnerCards(ppl, base.leitnerCards).cards
        stats == foldAll(emptySessionStats, <<[personId |-> ppl[1], correct |-> TRUE]>>)
    IN  IF ReadThrows(v) THEN [threw |-> TRUE, value |-> v]
        ELSE [threw |-> FALSE,
              value |-> [tag |-> "object", has |-> StatsFields,
                         nan |-> (IF v.tag = "object" THEN v.nan ELSE {})
                                 \cup {f \in CounterFields : Undefined(v, f)},
                         stats |-> finishSession(base, cards, stats, ppl)]]

StorageInit ==
    /\ Idle(<<"p1", "p2", "p3">>)
    /\ \E item \in StoredItems :
          probe = [kind |-> "storage", stored |-> item, item |-> item, phase |-> "stored",
                   loaded |-> JsNull, value |-> JsNull, op |-> "none", threw |-> FALSE,
                   sessions |-> 0]

\* App mounts: useLocalStorage('people-memorizer-stats', INITIAL_STATS), then
\* the effect that writes the value back
LoadStats ==
    /\ probe.kind = "storage" /\ probe.phase = "stored"
    /\ LET v == useLocalStorage(probe.item, JsObject(StatsFields, INITIAL_STATS))
       IN  probe' = [probe EXCEPT !.phase = "loaded", !.loaded = v, !.value = v,
                         !.item = JSONstringify(v), !.op = "load"]
    /\ UNCHANGED screen

\* the statistics screen is shown
ShowStatistics ==
    /\ probe.kind = "storage" /\ probe.phase = "loaded" /\ ~probe.threw
    /\ probe.op # "show"
    /\ probe' = [probe EXCEPT !.op = "show", !.threw = StatsScreenThrows(probe.value)]
    /\ UNCHANGED screen

\* a session is started on the training screen
StartTraining ==
    /\ probe.kind = "storage" /\ probe.phase = "loaded" /\ ~probe.threw
    /\ probe.op # "start"
    /\ probe.sessions < MaxSessions
    /\ probe' = [probe EXCEPT !.op = "start", !.threw = startSessionThrows(probe.value)]
    /\ UNCHANGED screen

\* the session finishes: finishSession, handleUpdateStats, write-back effect
FinishTraining ==
    /\ probe.kind = "storage" /\ probe.phase = "loaded" /\ ~probe.threw
    /\ probe.op = "start"
    /\ LET r == finishSessionOn(probe.value, people)
       IN  probe' = [probe EXCEPT !.op = "finish", !.threw = r.threw, !.value = r.value,
                         !.sessions = @ + 1,
                         !.item = IF r.threw THEN @ ELSE JSONstringify(r.value)]
    /\ UNCHANGED screen

\* clear: removeItem, setStoredValue(initialValue), write-back effect
ClearStats ==
    /\ probe.kind = "storage" /\ probe.phase = "loaded" /\ ~probe.threw
    /\ probe.op # "clear"
    /\ LET v == JsObject(StatsFields, INITIAL_STATS)
       IN  probe' = [probe EXCEPT !.op = "clear", !.value = v, !.item = JSONstringify(v)]
    /\ UNCHANGED screen

StorageNext == LoadStats \/ ShowStatistics \/ StartTraining \/ FinishTraining \/ ClearStats

SpecStorage == StorageInit /\ [][StorageNext]_vars

\* the stored text is the JSON of an OverallStats
WellShaped(item) ==
    /\ item # Absent /\ item.json
    /\ item.value.tag = "object" /\ item.value.has = StatsFields

\* C23: when the stored value is absent or corrupt (not JSON, or JSON that is
\* not an OverallStats), the loaded statistics are the all-zero default and no
\* later operation on them fails.
C23_CorruptLoadsDefault ==
    (probe.kind = "storage" /\ probe.phase = "loaded" /\ ~WellShaped(probe.stored)) =>
        /\ probe.loaded = JsObject(StatsFields, INITIAL_STATS)
        /\ ~probe.threw
        /\ probe.value.nan = {}

\* ------------------------------------------------------------------------
\* Claims about the training screen (Spec), continued
\* ------------------------------------------------------------------------

\* the card of person p in a mapping, as handleAnswer reads it
CardOf(cards, p) == IF p \in DOMAIN cards THEN cards[p] ELSE FreshCard(p)

\* a step that folds exactly one more result into the session
FoldsOne == /\ Len(sessionStats'.results) = Len(sessionStats.results) + 1
            /\ SubSeq(sessionStats'.results, 1, Len(sessionStats.results)) = sessionStats.results

\* the step moved the answered person's card as one updateLeitnerCard does
OneCardUpdate ==
    LET r == sessionStats'.results[Len(sessionStats'.results)]
        expected == updateLeitnerCard(CardOf(leitnerCards, r.personId), r.correct, Now)
        after == CardOf(leitnerCards', r.personId)
    IN  after.box = expected.box /\ after.correctStreak = expected.correctStreak

\* C26: in every game mode an answered question moves the answered person's
\* card by exactly one updateLeitnerCard: one box up (capped at 2) and streak
\* + 1 after a correct answer, box 0 and streak 0 after a wrong one.
C26_CardUpdatedOnce == [][FoldsOne => OneCardUpdate]_vars

\* the same for the modes that report through onAnswer alone
CardUpdatedOnceElsewhere ==
    [][(FoldsOne /\ settings.gameMode # "flashcards") => OneCardUpdate]_vars

\* C28: a result is folded only into the session in which its question was
\* answered: while no session is running nothing is folded into sessionStats
\* or the card mapping, and a callback left over from an ended session folds
\* nothing into a later one.
C28_FoldedInOwnSession ==
    [][/\ (~Mounted /\ ~Mounted') =>
             (sessionStats' = sessionStats /\ leitnerCards' = leitnerCards)
       /\ (pendingFeedback # <<>> /\ pendingFeedback' = Tail(pendingFeedback)
             /\ ~Head(pendingFeedback).live) =>
             (sessionStats' = sessionStats /\ leitnerCards' = leitnerCards)]_vars

\* C29: while a pair of the round is unmatched, some unmatched person's
\* correct answer button is not disabled as used, so the round can be
\* completed - also when two people of the round share the answer string.
C29_RoundCompletable ==
    (Mounted /\ settings.gameMode = "matching" /\ ~round.roundComplete) =>
        \A i \in 1..Len(round.pairs) :
            NameOf(round.pairs[i]) \notin round.matched =>
                \E j \in 1..Len(round.pairs) :
                    /\ NameOf(round.pairs[j]) \notin round.matched
                    /\ ~isUsed(round, AnswerOf(round.pairs[j], round.relation))

RECURSIVE SumOf(_, _, _)
\* the sum of a counter over the people in S
SumOf(personStats, S, field) ==
    IF S = {} THEN 0
    ELSE LET p == CHOOSE x \in S : TRUE
         IN  personStats[p][field] + SumOf(personStats, S \ {p}, field)

\* the aggregate and the per-person counters of overall agree
CountersAgree(overall) ==
    /\ SumOf(overall.personStats, DOMAIN overall.personStats, "timesAsked")
          = overall.totalQuestions
    /\ SumOf(overall.personStats, DOMAIN overall.personStats, "timesCorrect")
          = overall.totalCorrect
    /\ \A p \in DOMAIN overall.personStats :
          overall.personStats[p].timesCorrect <= overall.personStats[p].timesAsked
    /\ overall.totalCorrect <= overall.totalQuestions

\* no counter of overallStats is lower after the step
NoCounterDecreases ==
    /\ overallStats'.totalSessions >= overallStats.totalSessions
    /\ overallStats'.totalQuestions >= overallStats.totalQuestions
    /\ overallStats'.totalCorrect >= overallStats.totalCorrect
    /\ \A p \in DOMAIN overallStats.personStats :
          /\ p \in DOMAIN overallStats'.personStats
          /\ overallStats'.personStats[p].timesAsked >= overallStats.personStats[p].timesAsked
          /\ overallStats'.personStats[p].timesCorrect
                >= overallStats.personStats[p].timesCorrect

\* C30: in every state reached from empty statistics the per-person counters
\* sum to the totals, timesCorrect <= timesAsked, totalCorrect <=
\* totalQuestions, and no step of a session lowers a counter.
C30_CountersAgreeAndGrow == [][CountersAgree(overallStats') /\ NoCounterDecreases]_vars

\* the agreement of the counters alone
CountersAgreeAlways == CountersAgree(overallStats)

\* ------------------------------------------------------------------------
\* The questions of one session of a single-person mode (TrueFalseMode; the
\* other modes pick the next person the same way), on rosters whose ids may
\* be equal
\* ------------------------------------------------------------------------

SequenceInit ==
    /\ Idle(<<"p1", "p2", "p3">>)
    /\ \E ppl \in SelectRosters, fb \in BOOLEAN :
          probe = [kind |-> "sequence", people |-> ppl,
                   cards |-> initLeitnerCards(ppl, INITIAL_STATS.leitnerCards).cards,
                   showInstantFeedback |-> fb, question |-> NoPerson,
                   lastPersonId |-> NoPerson, feedback |-> FALSE, pending |-> <<>>,
                   asked |-> 0, previous |-> NoPerson]

\* nextQuestion of a render whose cards and lastPersonId were cards and last
AskNext(s, cards, last) ==
    {[s EXCEPT !.question = person, !.lastPersonId = person, !.feedback = FALSE,
               !.previous = s.question, !.asked = @ + 1] :
        person \in selectNextPerson(s.people, cards, last)}

\* useEffect: if (!question) nextQuestion()
AskFirst ==
    /\ probe.kind = "sequence"
    /\ probe.question = NoPerson
    /\ probe' \in AskNext(probe, probe.cards, probe.lastPersonId)
    /\ UNCHANGED screen

\* handleAnswer: with instant feedback the next question is asked by the
\* delayed callback, otherwise at once
SubmitAnswer ==
    /\ probe.kind = "sequence"
    /\ probe.question # NoPerson /\ ~probe.feedback
    /\ probe.asked < MaxQuestions
    /\ \E correct \in BOOLEAN :
          LET result == [personId |-> probe.question, correct |-> correct]
          IN  IF probe.showInstantFeedback
              THEN probe' = [probe EXCEPT !.feedback = TRUE,
                                 !.pending = <<[result |-> result, cards |-> probe.cards,
                                                last |-> probe.lastPersonId]>>]
              ELSE probe' \in AskNext([probe EXCEPT !.cards = cardAfterAnswer(@, result)],
                                      probe.cards, probe.lastPersonId)
    /\ UNCHANGED screen

\* the setTimeout callback: onAnswer(result); nextQuestion()
AutoAdvance ==
    /\ probe.kind = "sequence"
    /\ probe.pending # <<>>
    /\ LET t == probe.pending[1]
       IN  probe' \in AskNext([probe EXCEPT !.cards = cardAfterAnswer(@, t.result),
                                            !.pending = <<>>],
                              t.cards, t.last)
    /\ UNCHANGED screen

SequenceNext == AskFirst \/ SubmitAnswer \/ AutoAdvance

SpecSequence == SequenceInit /\ [][SequenceNext]_vars

\* C27: on a roster of at least 2 people the question presented after another
\* one of the same session is about another person, whether it was generated
\* at once or by the delayed callback.
C27_NoImmediateRepeat ==
    (probe.kind = "sequence" /\ Len(probe.people) >= 2 /\ probe.previous # NoPerson) =>
        probe.question # probe.previous

\* the same on rosters whose ids are pairwise different
NoRepeatWithDistinctIds ==
    (probe.kind = "sequence" /\ Len(probe.people) >= 2 /\ probe.previous # NoPerson
        /\ DistinctIds(probe.people)) =>
        probe.question # probe.previous

====
